---- MODULE Spec2Model ----
(***************************************************************************)
(* Model of the cavalier orchestrator (package cavalier, cavalier.go):     *)
(* the four operations HandleSnapshot, HandleRestore, HandleModify and     *)
(* HandleTerminate running against the database service (RDSClient) and    *)
(* the secret store (SecretsManagerClient).  The two services are modelled *)
(* as small stateful stores whose every call can also answer with a fault. *)
(***************************************************************************)
EXTENDS Integers, Sequences, FiniteSets, Bags, TLC

VARIABLES
    inst,      \* database service: the DB instance stored under the target identifier
    secret,    \* secret store: the value stored under <prefix>/<target>, or NoSecret
    snaps,     \* database service: the DB snapshots, in listing order
    loc,       \* per invocation: position and local variables of the running handler
    nops,      \* number of handler invocations started so far
    applied,   \* passwords carried by ModifyDBInstance requests since the secret was last absent
    probe      \* a policy function applied on its own: its name, its input and its output

vars == <<inst, secret, snaps, loc, nops, applied, probe>>

----------------------------------------------------------------------------
(* Bounds of the model *)

MaxOps == 2      \* handler invocations in one behaviour
MaxPolls == 2    \* polls a waiter makes before its wait budget is used up

----------------------------------------------------------------------------
(* Configuration (Config) *)

Procs == {"cli"}

Target == "test"                     \* cfg.DBInstanceIdentifier
Source == "prod"                     \* cfg.SourceDBInstanceIdentifier
Prefix == "cavalier"                 \* cfg.SecretsManagerPrefix
GivenARN == "arn:given"              \* cfg.SnapshotARN

NoSecret == "<none>"
NoProbe == [fn |-> "", in |-> <<>>, out |-> <<>>]
NoValue == "-"
NilPointer == "<nil>"                \* a *string that points to nothing

----------------------------------------------------------------------------
(* Errors: an error is the chain of messages from the outermost wrapper to  *)
(* the root cause; the empty chain is nil.                                  *)

Nil == <<>>

Wrap(msg, err) == <<msg>> \o err

\* errors.Is: some error of the chain is the target value
ErrorsIs(err, target) ==
    \E i \in 1..Len(err) : SubSeq(err, i, Len(err)) = target

\* errors.As for a typed fault: some error of the chain has that type
ErrorsAs(err, kind) ==
    \E i \in 1..Len(err) : err[i] = kind

errDBNotCreatedByCavalier ==
    <<"cavalier: the specified DB instance wasn't created by the cavalier">>

errNoSnapshot == <<"cavalier: no corresponding the DB snapshot">>

DBInstanceNotFoundFault == <<"DBInstanceNotFoundFault">>
InvalidDBInstanceStateFault == <<"InvalidDBInstanceStateFault">>
DBSnapshotNotFoundFault == <<"DBSnapshotNotFoundFault">>
DBSnapshotAlreadyExistsFault == <<"DBSnapshotAlreadyExistsFault">>
DBInstanceAlreadyExistsFault == <<"DBInstanceAlreadyExistsFault">>
ResourceExistsException == <<"ResourceExistsException">>
ResourceNotFoundException == <<"ResourceNotFoundException">>
ExpiredToken == <<"ExpiredToken">>
ServiceError == <<"service error">>      \* any other error a client call returns

IsDBInstanceNotFound(err) == ErrorsAs(err, "DBInstanceNotFoundFault")

IsDBSnapshotNotFound(err) == ErrorsAs(err, "DBSnapshotNotFoundFault")

----------------------------------------------------------------------------
(* Tag policy *)

Tag(k, v) == [Key |-> k, Value |-> v]

\* strconv.ParseBool: the accepted spellings, anything else is an error
ParseBool(v) ==
    IF v \in {"1", "t", "T", "TRUE", "true", "True"} THEN [value |-> TRUE, err |-> FALSE]
    ELSE IF v \in {"0", "f", "F", "FALSE", "false", "False"} THEN [value |-> FALSE, err |-> FALSE]
    ELSE [value |-> FALSE, err |-> TRUE]

\* index of the first tag of the list with the given key, 0 when there is none
FirstTag(tags, key) ==
    LET idx == {i \in 1..Len(tags) : tags[i].Key = key}
    IN  IF idx = {} THEN 0 ELSE CHOOSE i \in idx : \A j \in idx : i <= j

\* the ownership test on the presence of the tag alone
isCreatedByCavalier_keyOnly(dbi) == FirstTag(dbi.TagList, "CREATED_BY_CAVALIER") # 0

isCreatedByCavalier(dbi) ==
    LET i == FirstTag(dbi.TagList, "CREATED_BY_CAVALIER")
    IN  IF i = 0 THEN FALSE ELSE ParseBool(dbi.TagList[i].Value).value

doesUseSnapshotCreatedByCavalier(tags) ==
    LET i == FirstTag(tags, "USE_SNAPSHOT_CREATED_BY_CAVALIER")
    IN  IF i = 0 THEN FALSE ELSE ParseBool(tags[i].Value).value

isSnapshotCreatedByCavalier_anyLink(dbi, dbs) ==
    \E i \in 1..Len(dbs.TagList) : dbs.TagList[i].Key = "CAVALIER_DB_INSTANCE_IDENTIFIER"

isSnapshotCreatedByCavalier(dbi, dbs) ==
    \E i \in 1..Len(dbs.TagList) :
        /\ dbs.TagList[i].Key = "CAVALIER_DB_INSTANCE_IDENTIFIER"
        /\ dbs.TagList[i].Value = dbi

\* one snapshot name for every instance
dbSnapshotName_fixed(dbi) == "cavalier"

dbSnapshotName(dbi) == dbi \o "-cavalier"

masterUserPasswordSecretName(prefix, name) == prefix \o "/" \o name

----------------------------------------------------------------------------
(* The services' records *)

\* the zero value of types.DBInstance
ZeroDBInstance == [DBInstanceIdentifier |-> NilPointer, TagList |-> <<>>, DBInstanceStatus |-> ""]

\* the zero value of types.DBSnapshot
ZeroDBSnapshot ==
    [DBSnapshotIdentifier |-> "", SnapshotType |-> "", TagList |-> <<>>,
     DBSnapshotArn |-> "", Status |-> ""]

Absent == [exists |-> FALSE, TagList |-> <<>>, status |-> "", pw |-> NoValue]

Present(tags, status, pw) == [exists |-> TRUE, TagList |-> tags, status |-> status, pw |-> pw]

\* the instance as DescribeDBInstances reports it
View(i) == [DBInstanceIdentifier |-> Target, TagList |-> i.TagList, DBInstanceStatus |-> i.status]

DBSnapshot(id, typ, tags, status) ==
    [DBSnapshotIdentifier |-> id, SnapshotType |-> typ, TagList |-> tags,
     DBSnapshotArn |-> "arn:" \o id, Status |-> status]

----------------------------------------------------------------------------
(* The service calls: each operator gives the set of answers the service    *)
(* can give in the current store (the regular answer and the faults).       *)

\* RDS DescribeDBInstances for the target identifier
DescribeDBInstances(i) ==
    {IF i.exists THEN [err |-> Nil, DBInstances |-> <<View(i)>>]
                 ELSE [err |-> DBInstanceNotFoundFault, DBInstances |-> <<>>]}
    \cup {[err |-> ServiceError, DBInstances |-> <<>>]}
    \cup {[err |-> Nil, DBInstances |-> <<>>]}
    \cup (IF i.exists THEN {[err |-> Nil, DBInstances |-> <<View(i), View(i)>>]} ELSE {})
    \cup (IF i.exists   \* an instance record without its identifier
          THEN {[err |-> Nil,
                 DBInstances |-> <<[View(i) EXCEPT !.DBInstanceIdentifier = NilPointer]>>]}
          ELSE {})

\* RDS DeleteDBInstance
DeleteDBInstance(i) ==
    {IF ~i.exists THEN [err |-> DBInstanceNotFoundFault, inst |-> i]
     ELSE IF i.status \in {"available", "failed"}
          THEN [err |-> Nil, inst |-> [i EXCEPT !.status = "deleting"]]
          ELSE [err |-> InvalidDBInstanceStateFault, inst |-> i]}
    \cup {[err |-> ServiceError, inst |-> i]}

\* RDS ModifyDBInstance
ModifyDBInstance(i, pw) ==
    {IF ~i.exists THEN [err |-> DBInstanceNotFoundFault, inst |-> i]
     ELSE IF i.status = "available"
          THEN [err |-> Nil, inst |-> [i EXCEPT !.status = "modifying", !.pw = pw]]
          ELSE [err |-> InvalidDBInstanceStateFault, inst |-> i]}
    \cup {[err |-> ServiceError, inst |-> i]}

\* RDS RestoreDBInstanceFromDBSnapshot; DBInstance is the output's pointer to the
\* record of the new instance: the record, or nothing
RestoreDBInstanceFromDBSnapshot(i, tags) ==
    (IF i.exists
     THEN {[err |-> DBInstanceAlreadyExistsFault, inst |-> i, DBInstance |-> <<>>]}
     ELSE {[err |-> Nil, inst |-> Present(tags, "creating", "pwSnapshot"), DBInstance |-> d] :
              d \in {<<[DBInstanceIdentifier |-> Target]>>, <<>>}})
    \cup {[err |-> ServiceError, inst |-> i, DBInstance |-> <<>>]}

\* RDS CreateDBSnapshot
CreateDBSnapshot(ss, id, tags) ==
    {IF \E k \in 1..Len(ss) : ss[k].DBSnapshotIdentifier = id
     THEN [err |-> DBSnapshotAlreadyExistsFault, snaps |-> ss]
     ELSE [err |-> Nil, snaps |-> Append(ss, DBSnapshot(id, "manual", tags, "creating"))]}
    \cup {[err |-> ServiceError, snaps |-> ss]}

\* RDS DeleteDBSnapshot: removes the first stored snapshot with the identifier
DeleteDBSnapshot(ss, id) ==
    LET idx == {k \in 1..Len(ss) : ss[k].DBSnapshotIdentifier = id}
    IN  {IF idx = {} THEN [err |-> DBSnapshotNotFoundFault, snaps |-> ss]
         ELSE LET k == CHOOSE a \in idx : \A b \in idx : a <= b
              IN  [err |-> Nil, snaps |-> SubSeq(ss, 1, k - 1) \o SubSeq(ss, k + 1, Len(ss))]}
        \cup {[err |-> ServiceError, snaps |-> ss]}

\* the stored snapshots a DescribeDBSnapshots request selects
SelectSnapshots(ss, id, typ) ==
    SelectSeq(ss, LAMBDA s : s.DBSnapshotIdentifier = id /\ (typ = "" \/ s.SnapshotType = typ))

Page(err, items) == [err |-> err, DBSnapshots |-> items]

\* RDS DescribeDBSnapshots through the paginator: the pages the listing can come
\* in (the service may answer with an empty page that has a successor)
DescribeDBSnapshotsPages(ss, id, typ) ==
    LET l == SelectSnapshots(ss, id, typ)
    IN  {<<Page(Nil, l)>>, <<Page(ServiceError, <<>>)>>,
         <<Page(Nil, <<>>), Page(Nil, l)>>, <<Page(Nil, <<>>), Page(ServiceError, <<>>)>>}
        \cup (IF l = <<>> THEN {<<Page(DBSnapshotNotFoundFault, <<>>)>>} ELSE {})

\* Secrets Manager CreateSecret
CreateSecret(s, value) ==
    {IF s = NoSecret THEN [err |-> Nil, secret |-> value]
                     ELSE [err |-> ResourceExistsException, secret |-> s]}
    \cup {[err |-> ServiceError, secret |-> s]}

\* Secrets Manager GetSecretValue
GetSecretValue(s) ==
    {IF s = NoSecret THEN [err |-> ResourceNotFoundException, SecretString |-> ""]
                     ELSE [err |-> Nil, SecretString |-> s]}
    \cup {[err |-> ServiceError, SecretString |-> ""]}

\* Secrets Manager DeleteSecret (ForceDeleteWithoutRecovery)
DeleteSecret(s) ==
    {[err |-> Nil, secret |-> NoSecret], [err |-> ServiceError, secret |-> s]}
    \cup (IF s = NoSecret THEN {[err |-> ResourceNotFoundException, secret |-> s]} ELSE {})

\* what the service does to the instance on its own
InstanceProgress(i) ==
    (IF i.exists /\ i.status = "deleting" THEN {Absent} ELSE {})
        \cup (IF i.exists /\ i.status \in {"creating", "modifying"}
              THEN {[i EXCEPT !.status = "available"]} ELSE {})
        \cup (IF i.exists /\ i.status = "creating"
              THEN {[i EXCEPT !.status = "failed"]} ELSE {})

\* what the service does to the snapshots on its own
SnapshotProgress(ss) ==
    IF \E k \in 1..Len(ss) : ss[k].Status = "creating"
    THEN {[k \in 1..Len(ss) |->
              IF ss[k].Status = "creating" THEN [ss[k] EXCEPT !.Status = st] ELSE ss[k]] :
          st \in {"available", "failed"}}
    ELSE {}

----------------------------------------------------------------------------
(* The handler's local state *)

\* one request issued through a client interface, with the error it returned
Call(name, id, arg, tags, err) ==
    [call |-> name, id |-> id, arg |-> arg, tags |-> tags, err |-> err]

\* no modification request made yet
NoModifyInput ==
    [DBInstanceIdentifier |-> "", ApplyImmediately |-> FALSE,
     BackupRetentionPeriod |-> -1, MasterUserPassword |-> ""]

ZeroLocals ==
    [pc |-> "idle", op |-> "", takeSnapshot |-> FALSE,
     SnapshotARN |-> "", SourceDBInstanceIdentifier |-> "",   \* the flags given to the command
     resp |-> [err |-> Nil, DBInstances |-> <<>>],    \* answer of the ownership lookup
     dbAlreadyDeleted |-> FALSE, ok |-> FALSE, dbi |-> ZeroDBInstance,
     pages |-> <<>>,                                  \* answer of the snapshot listing
     dbs |-> ZeroDBSnapshot, snapshotARN |-> "",
     generated |-> "", mupw |-> "", polls |-> 0,
     input |-> NoModifyInput,                         \* the latest rds.ModifyDBInstanceInput
     polled |-> [err |-> Nil, statuses |-> <<>>],     \* answer of the latest poll of a wait
     ctx |-> "live",                                  \* the context.Context the handler was given
     result |-> Nil, calls |-> <<>>,
     inst0 |-> Absent, snaps0 |-> <<>>,               \* the services when the handler started
     \* the invocation before: its operation, its success, its cfg.takeSnapshot
     prev |-> [op |-> "", ok |-> FALSE, takeSnapshot |-> FALSE]]

Logged(l, c) == [l EXCEPT !.calls = Append(@, c)]

\* the handler returns err to its caller
Returned(l, err) == [l EXCEPT !.pc = "done", !.result = err, !.polls = 0]

Goto(l, pc) == [l EXCEPT !.pc = pc, !.polls = 0]

\* the handler dereferences a nil pointer: the goroutine panics, nothing is returned
Panicked(l) == [l EXCEPT !.pc = "panicked", !.polls = 0]

Set(p, l) == loc' = [loc EXCEPT ![p] = l]

\* the error of a request whose context is cancelled
Canceled == <<"context canceled">>

\* a request made with the handler's context: with a cancelled context it fails
\* with the context's error and leaves the service as it was
InContext(l, answers) ==
    IF l.ctx = "cancelled"
    THEN {[a EXCEPT !.err = Canceled] : a \in {b \in answers : b.err = ServiceError}}
    ELSE answers

PagesInContext(l, listings) ==
    IF l.ctx = "cancelled" THEN {<<Page(Canceled, <<>>)>>} ELSE listings

----------------------------------------------------------------------------
(* Cavalier.isCreatedByCavalier: the ownership lookup *)

\* the lookup with the service's error formatted into the message, not wrapped
Cavalier_isCreatedByCavalier_opaque(resp) ==
    IF resp.err # Nil
    THEN [dbi |-> ZeroDBInstance, ok |-> FALSE,
          err |-> <<"describing the DB instance: " \o resp.err[1]>>]
    ELSE IF Len(resp.DBInstances) # 1
    THEN [dbi |-> ZeroDBInstance, ok |-> FALSE,
          err |-> <<"zero DB instance or more than one DB instances returned">>]
    ELSE IF ~isCreatedByCavalier(resp.DBInstances[1])
    THEN [dbi |-> ZeroDBInstance, ok |-> FALSE, err |-> Nil]
    ELSE [dbi |-> resp.DBInstances[1], ok |-> TRUE, err |-> Nil]

\* the lookup that takes an empty answer for not-found and, of several
\* instances, the first
Cavalier_isCreatedByCavalier_first(resp) ==
    IF resp.err # Nil
    THEN [dbi |-> ZeroDBInstance, ok |-> FALSE,
          err |-> Wrap("describing the DB instance", resp.err)]
    ELSE IF Len(resp.DBInstances) = 0
    THEN [dbi |-> ZeroDBInstance, ok |-> FALSE,
          err |-> Wrap("describing the DB instance", DBInstanceNotFoundFault)]
    ELSE IF ~isCreatedByCavalier(resp.DBInstances[1])
    THEN [dbi |-> ZeroDBInstance, ok |-> FALSE, err |-> Nil]
    ELSE [dbi |-> resp.DBInstances[1], ok |-> TRUE, err |-> Nil]

Cavalier_isCreatedByCavalier(resp) ==
    IF resp.err # Nil
    THEN [dbi |-> ZeroDBInstance, ok |-> FALSE,
          err |-> Wrap("describing the DB instance", resp.err)]
    ELSE IF Len(resp.DBInstances) # 1
    THEN [dbi |-> ZeroDBInstance, ok |-> FALSE,
          err |-> <<"zero DB instance or more than one DB instances returned">>]
    ELSE IF ~isCreatedByCavalier(resp.DBInstances[1])
    THEN [dbi |-> ZeroDBInstance, ok |-> FALSE, err |-> Nil]
    ELSE [dbi |-> resp.DBInstances[1], ok |-> TRUE, err |-> Nil]

\* the error HandleTerminate and HandleModify return for an instance that is not owned
notCreatedError == <<"the specified DB instance wasn't created by the cavalier">>

\* rdsClient.DescribeDBSnapshotByIdentifier over the pages of the listing
RECURSIVE DescribeDBSnapshotByIdentifier(_, _)
DescribeDBSnapshotByIdentifier(pages, dbi) ==
    IF pages = <<>>
    THEN [dbs |-> ZeroDBSnapshot, err |-> <<"no corresponding the DB snapshot">>]
    ELSE LET resp == Head(pages)
             hit == {k \in 1..Len(resp.DBSnapshots) :
                        isSnapshotCreatedByCavalier(dbi, resp.DBSnapshots[k])}
         IN  IF resp.err # Nil
             THEN [dbs |-> ZeroDBSnapshot, err |-> Wrap("describing the DB snapshot", resp.err)]
             ELSE IF hit # {}
             THEN [dbs |-> resp.DBSnapshots[CHOOSE a \in hit : \A b \in hit : a <= b],
                   err |-> Nil]
             ELSE DescribeDBSnapshotByIdentifier(Tail(pages), dbi)

\* the fault of the page that ended a listing, nil when no page failed
PageError(err) == IF Len(err) > 1 THEN Tail(err) ELSE Nil

----------------------------------------------------------------------------
(* Wait policy *)

errSkipRetrable == <<"cavalier: skip retryable">>

\* smithy.APIError: the typed faults and the coded errors of the services
APIErrorCodes ==
    {"DBInstanceNotFoundFault", "InvalidDBInstanceStateFault", "DBSnapshotNotFoundFault",
     "DBSnapshotAlreadyExistsFault", "DBInstanceAlreadyExistsFault",
     "ResourceExistsException", "ResourceNotFoundException", "ExpiredToken"}

\* a rule that decides on every API error, whatever its code
waiterRetryable_anyAPIError(err) ==
    IF err = Nil THEN [ok |-> FALSE, rerr |-> errSkipRetrable]
    ELSE IF ~\E i \in 1..Len(err) : err[i] \in APIErrorCodes
    THEN [ok |-> FALSE, rerr |-> errSkipRetrable]
    ELSE [ok |-> FALSE, rerr |-> err]

waiterRetryable(err) ==
    IF err = Nil THEN [ok |-> FALSE, rerr |-> errSkipRetrable]
    ELSE IF ~\E i \in 1..Len(err) : err[i] \in APIErrorCodes
    THEN [ok |-> FALSE, rerr |-> errSkipRetrable]
    ELSE LET i == CHOOSE a \in 1..Len(err) :
                     /\ err[a] \in APIErrorCodes
                     /\ \A b \in 1..Len(err) : err[b] \in APIErrorCodes => a <= b
         IN  IF err[i] = "ExpiredToken" THEN [ok |-> FALSE, rerr |-> err]
             ELSE [ok |-> FALSE, rerr |-> errSkipRetrable]

waiterFailure == <<"waiter state transitioned to Failure">>

\* opts.Retryable as the waiter constructors set it: the service's retry rule of
\* each resource kind, on the statuses the poll returned and its error
origRetryable(kind, statuses, err) ==
    IF kind = "DBInstanceDeleted"
    THEN IF err = Nil /\ statuses = <<>> THEN [retry |-> FALSE, err |-> Nil]
         ELSE IF err # Nil /\ IsDBInstanceNotFound(err) THEN [retry |-> FALSE, err |-> Nil]
         ELSE IF err = Nil /\ \E k \in 1..Len(statuses) :
                     statuses[k] \in {"creating", "modifying", "rebooting",
                                      "resetting-master-credentials"}
         THEN [retry |-> FALSE, err |-> waiterFailure]
         ELSE IF err # Nil THEN [retry |-> FALSE, err |-> err]
         ELSE [retry |-> TRUE, err |-> Nil]
    ELSE \* DBInstanceAvailable and DBSnapshotAvailable
         IF err = Nil /\ statuses # <<>>
               /\ \A k \in 1..Len(statuses) : statuses[k] = "available"
         THEN [retry |-> FALSE, err |-> Nil]
         ELSE IF err = Nil /\ \E k \in 1..Len(statuses) :
                     statuses[k] \in {"deleted", "deleting", "failed", "incompatible-restore",
                                      "incompatible-parameters"}
         THEN [retry |-> FALSE, err |-> waiterFailure]
         ELSE IF err # Nil THEN [retry |-> FALSE, err |-> err]
         ELSE [retry |-> TRUE, err |-> Nil]

\* a retry rule that answers every decided error with "retry, no error"
setCustomRDSRetryable_swallow(kind, statuses, err) ==
    LET w == waiterRetryable(err)
    IN  IF ~ErrorsIs(w.rerr, errSkipRetrable)
        THEN [retry |-> TRUE, err |-> Nil]
        ELSE origRetryable(kind, statuses, err)

\* the retry rule setCustomRDSRetryable installs
setCustomRDSRetryable(kind, statuses, err) ==
    LET w == waiterRetryable(err)
    IN  IF ~ErrorsIs(w.rerr, errSkipRetrable)
        THEN [retry |-> w.ok, err |-> err]
        ELSE origRetryable(kind, statuses, err)

\* the wait's end on a used-up budget reported as a failure state
exceededMaxWait_asFailure(kind) == waiterFailure

exceededMaxWait(kind) == <<"exceeded max wait time for " \o kind \o " waiter">>

\* the answers a poll of the instance can get
PollDBInstances(i) ==
    {IF i.exists THEN [err |-> Nil, statuses |-> <<i.status>>]
                 ELSE [err |-> DBInstanceNotFoundFault, statuses |-> <<>>]}
    \cup {[err |-> ExpiredToken, statuses |-> <<>>], [err |-> ServiceError, statuses |-> <<>>]}

\* the answers a poll of the snapshots named id can get
PollDBSnapshots(ss, id) ==
    LET l == SelectSnapshots(ss, id, "")
    IN  {IF l = <<>> THEN [err |-> DBSnapshotNotFoundFault, statuses |-> <<>>]
         ELSE [err |-> Nil, statuses |-> [k \in 1..Len(l) |-> l[k].Status]]}
        \cup {[err |-> ExpiredToken, statuses |-> <<>>], [err |-> ServiceError, statuses |-> <<>>]}

\* one round of waiter.Wait: the decision on the poll's answer, then either the
\* wait's end (success at pc next, or the error wrapped in msg) or another round
WaitRound(l0, kind, answer, msg, next) ==
    LET d == setCustomRDSRetryable(kind, answer.statuses, answer.err)
        name == "Wait" \o kind
        id == IF kind = "DBSnapshotAvailable" THEN dbSnapshotName(Target) ELSE Target
        l == [l0 EXCEPT !.polled = answer]
    IN  IF d.err # Nil
        THEN Returned(Logged(l, Call(name, id, "", <<>>, d.err)), Wrap(msg, d.err))
        ELSE IF ~d.retry
        THEN Goto(Logged(l, Call(name, id, "", <<>>, Nil)), next)
        ELSE IF l.polls + 1 >= MaxPolls
        THEN Returned(Logged(l, Call(name, id, "", <<>>, exceededMaxWait(kind))),
                      Wrap(msg, exceededMaxWait(kind)))
        ELSE [l EXCEPT !.polls = @ + 1]

WaitDBInstance(p, at, kind, msg, next) ==
    /\ loc[p].pc = at
    /\ \E answer \in InContext(loc[p], PollDBInstances(inst)) :
          Set(p, WaitRound(loc[p], kind, answer, msg, next))
    /\ UNCHANGED <<inst, secret, snaps, nops, applied, probe>>

----------------------------------------------------------------------------
(* HandleTerminate *)

\* lines 143-158: the ownership lookup and what Terminate makes of it
TerminateLookup(p) ==
    /\ loc[p].pc = "T_lookup"
    /\ \E resp \in InContext(loc[p], DescribeDBInstances(inst)) :
          LET r == Cavalier_isCreatedByCavalier(resp)
              dbAlreadyDeleted == r.err # Nil /\ IsDBInstanceNotFound(r.err)
              l == [Logged(loc[p], Call("DescribeDBInstances", Target, "", <<>>, resp.err))
                      EXCEPT !.resp = resp, !.ok = r.ok, !.dbi = r.dbi,
                             !.dbAlreadyDeleted = dbAlreadyDeleted]
          IN  IF r.err # Nil /\ ~dbAlreadyDeleted THEN Set(p, Returned(l, r.err))
              ELSE IF ~dbAlreadyDeleted /\ ~r.ok THEN Set(p, Returned(l, notCreatedError))
              ELSE IF ~dbAlreadyDeleted THEN Set(p, Goto(l, "T_delete"))
              ELSE Set(p, Goto(l, "T_secret"))
    /\ UNCHANGED <<inst, secret, snaps, nops, applied, probe>>

\* the delete request with every error taken for an accepted delete
TerminateDelete_anyError(p) ==
    /\ loc[p].pc = "T_delete"
    /\ \E out \in InContext(loc[p], DeleteDBInstance(inst)) :
          LET l == Logged(loc[p], Call("DeleteDBInstance", Target, "", <<>>, out.err))
          IN  /\ inst' = out.inst
              /\ IF IsDBInstanceNotFound(out.err) THEN Set(p, Goto(l, "T_secret"))
                 ELSE Set(p, Goto(l, "T_sleep"))
    /\ UNCHANGED <<secret, snaps, nops, applied, probe>>

\* deleteDBInstance, lines 105-121: the delete request
TerminateDelete(p) ==
    /\ loc[p].pc = "T_delete"
    /\ \E out \in InContext(loc[p], DeleteDBInstance(inst)) :
          LET l == Logged(loc[p], Call("DeleteDBInstance", Target, "", <<>>, out.err))
          IN  /\ inst' = out.inst
              /\ IF IsDBInstanceNotFound(out.err) THEN Set(p, Goto(l, "T_secret"))
                 ELSE IF out.err # Nil /\ ~ErrorsAs(out.err, "InvalidDBInstanceStateFault")
                 THEN Set(p, Returned(l, Wrap("deleting the DB instance", out.err)))
                 ELSE Set(p, Goto(l, "T_sleep"))
    /\ UNCHANGED <<secret, snaps, nops, applied, probe>>

\* the settle delay followed by the secret's deletion, the wait left out
TerminateSleep_skipWait(p) ==
    /\ loc[p].pc = "T_sleep"
    /\ Set(p, Goto(Logged(loc[p], Call("Sleep", "", "", <<>>, Nil)), "T_secret"))
    /\ UNCHANGED <<inst, secret, snaps, nops, applied, probe>>

\* deleteDBInstance, line 125: the settle delay
TerminateSleep(p) ==
    /\ loc[p].pc = "T_sleep"
    /\ Set(p, Goto(Logged(loc[p], Call("Sleep", "", "", <<>>, Nil)), "T_wait"))
    /\ UNCHANGED <<inst, secret, snaps, nops, applied, probe>>

\* deleteDBInstance, lines 127-140: the wait for the deleted instance
TerminateWait(p) ==
    WaitDBInstance(p, "T_wait", "DBInstanceDeleted",
                   "waiting for the instance to be deleted", "T_secret")

\* the secret's deletion with a not-found answer taken for success
TerminateSecret_tolerant(p) ==
    /\ loc[p].pc = "T_secret"
    /\ \E out \in InContext(loc[p], DeleteSecret(secret)) :
          LET l == Logged(loc[p],
                     Call("DeleteSecret", masterUserPasswordSecretName(Prefix, Target),
                          "ForceDeleteWithoutRecovery", <<>>, out.err))
          IN  /\ secret' = out.secret
              /\ applied' = IF out.err = Nil THEN {} ELSE applied
              /\ IF out.err # Nil /\ ~ErrorsAs(out.err, "ResourceNotFoundException")
                 THEN Set(p, Returned(l, Wrap("deleting the master user password secret", out.err)))
                 ELSE Set(p, Goto(l, "T_snapshot"))
    /\ UNCHANGED <<inst, snaps, nops, probe>>

\* lines 170-173 and deleteMasterUserPasswordSecret
TerminateSecret(p) ==
    /\ loc[p].pc = "T_secret"
    /\ \E out \in InContext(loc[p], DeleteSecret(secret)) :
          LET l == Logged(loc[p],
                     Call("DeleteSecret", masterUserPasswordSecretName(Prefix, Target),
                          "ForceDeleteWithoutRecovery", <<>>, out.err))
          IN  /\ secret' = out.secret
              /\ applied' = IF out.err = Nil THEN {} ELSE applied
              /\ IF out.err # Nil
                 THEN Set(p, Returned(l, Wrap("deleting the master user password secret", out.err)))
                 ELSE Set(p, Goto(l, "T_snapshot"))
    /\ UNCHANGED <<inst, snaps, nops, probe>>

\* the older handleTerminate's condition (main.go line 334) put in front of line 185
TerminateDeletesSnapshot_usage(l, dbs) ==
    doesUseSnapshotCreatedByCavalier(l.dbi.TagList) /\ isSnapshotCreatedByCavalier(Target, dbs)

\* Terminate leaving the snapshot in place whatever the lookup gave it
TerminateDeletesSnapshot_never(l, dbs) == FALSE

\* line 185: whether Terminate, with locals l, deletes the snapshot the lookup gave it
TerminateDeletesSnapshot(l, dbs) == isSnapshotCreatedByCavalier(Target, dbs)

\* lines 177-199: the lookup of the corresponding snapshot
TerminateSnapshotLookup(p) ==
    /\ loc[p].pc = "T_snapshot"
    /\ \E pages \in PagesInContext(loc[p], DescribeDBSnapshotsPages(snaps, dbSnapshotName(Target),
                                                                  "manual")) :
          LET r == DescribeDBSnapshotByIdentifier(pages, Target)
              l == [Logged(loc[p], Call("DescribeDBSnapshots", dbSnapshotName(Target),
                                         "manual", <<>>, PageError(r.err)))
                      EXCEPT !.pages = pages, !.dbs = r.dbs]
          IN  IF r.err # Nil /\ ~IsDBSnapshotNotFound(r.err) THEN Set(p, Returned(l, r.err))
              ELSE IF TerminateDeletesSnapshot(l, r.dbs)
              THEN Set(p, Goto(l, "T_snapdelete"))
              ELSE Set(p, Returned(l, Nil))
    /\ UNCHANGED <<inst, secret, snaps, nops, applied, probe>>

SnapshotToDelete_arn(dbs) == dbs.DBSnapshotArn

\* line 189: the identifier Terminate's DeleteDBSnapshot request names
SnapshotToDelete(dbs) == dbs.DBSnapshotIdentifier

\* lines 188-196: the delete of the corresponding snapshot
TerminateSnapshotDelete(p) ==
    /\ loc[p].pc = "T_snapdelete"
    /\ \E out \in InContext(loc[p], DeleteDBSnapshot(snaps, SnapshotToDelete(loc[p].dbs))) :
          LET l == Logged(loc[p], Call("DeleteDBSnapshot", SnapshotToDelete(loc[p].dbs),
                                        "", <<>>, out.err))
          IN  /\ snaps' = out.snaps
              /\ IF out.err # Nil
                 THEN Set(p, Returned(l, Wrap("removing the corresponding DB snapshot", out.err)))
                 ELSE Set(p, Returned(l, Nil))
    /\ UNCHANGED <<inst, secret, nops, applied, probe>>

----------------------------------------------------------------------------
(* HandleModify *)

\* generateMasterUserPassword: the values the generator can return
Passwords == {"pwA", "pwB"}

\* line 500: the password Modify goes on with after the secret was found to exist
ReusedPassword_generated(generated, existingPassword) == generated

ReusedPassword(generated, existingPassword) == existingPassword

\* lines 457-466: the ownership lookup
ModifyLookup(p) ==
    /\ loc[p].pc = "M_lookup"
    /\ \E resp \in InContext(loc[p], DescribeDBInstances(inst)) :
          LET r == Cavalier_isCreatedByCavalier(resp)
              l == [Logged(loc[p], Call("DescribeDBInstances", Target, "", <<>>, resp.err))
                      EXCEPT !.resp = resp, !.ok = r.ok, !.dbi = r.dbi]
          IN  IF r.err # Nil THEN Set(p, Returned(l, r.err))
              ELSE IF ~r.ok THEN Set(p, Returned(l, notCreatedError))
              ELSE IF r.dbi.DBInstanceIdentifier = NilPointer   \* line 468
              THEN Set(p, Panicked(l))
              ELSE Set(p, Goto(l, "M_wait1"))
    /\ UNCHANGED <<inst, secret, snaps, nops, applied, probe>>

\* lines 470-477: the wait for the available instance
ModifyWaitBefore(p) ==
    WaitDBInstance(p, "M_wait1", "DBInstanceAvailable",
                   "waiting for the instance to be up and running", "M_create")

\* the secret step with every error of CreateSecret taken for "already exists"
\* and the existing value never read: Modify goes on with the generated password
ModifyCreateSecret_unstored(p) ==
    /\ loc[p].pc = "M_create"
    /\ \E mupw \in Passwords : \E out \in InContext(loc[p], CreateSecret(secret, mupw)) :
          LET name == masterUserPasswordSecretName(Prefix, loc[p].dbi.DBInstanceIdentifier)
              l == [Logged(loc[p], Call("CreateSecret", name, mupw, <<>>, out.err))
                      EXCEPT !.generated = mupw, !.mupw = mupw]
          IN  /\ secret' = out.secret
              /\ Set(p, Goto(l, "M_modify"))
    /\ UNCHANGED <<inst, snaps, nops, applied, probe>>

\* lines 481-503: generate the password and create the secret
ModifyCreateSecret(p) ==
    /\ loc[p].pc = "M_create"
    /\ \/ \* the generator fails
          /\ Set(p, Returned(loc[p], Wrap("generating the master user password",
                                          <<"generator error">>)))
          /\ UNCHANGED secret
       \/ \E mupw \in Passwords : \E out \in InContext(loc[p], CreateSecret(secret, mupw)) :
             LET name == masterUserPasswordSecretName(Prefix, loc[p].dbi.DBInstanceIdentifier)
                 cerr == IF out.err = Nil THEN Nil
                         ELSE Wrap("creating a new master user password", out.err)
                 l == [Logged(loc[p], Call("CreateSecret", name, mupw, <<>>, out.err))
                         EXCEPT !.generated = mupw, !.mupw = mupw]
             IN  /\ secret' = out.secret
                 /\ IF cerr = Nil THEN Set(p, Goto(l, "M_modify"))
                    ELSE IF ~ErrorsAs(cerr, "ResourceExistsException")
                    THEN Set(p, Returned(l, Wrap("creating the master user password", cerr)))
                    ELSE Set(p, Goto(l, "M_get"))
    /\ UNCHANGED <<inst, snaps, nops, applied, probe>>

\* lines 493-500 and getMasterUserPasswordSecret: reuse the stored password
ModifyGetSecret(p) ==
    /\ loc[p].pc = "M_get"
    /\ \E out \in InContext(loc[p], GetSecretValue(secret)) :
          LET name == masterUserPasswordSecretName(Prefix, loc[p].dbi.DBInstanceIdentifier)
              l == Logged(loc[p], Call("GetSecretValue", name, out.SecretString, <<>>, out.err))
          IN  IF out.err # Nil
              THEN Set(p, Returned(l, Wrap("gettign the existing master user password",
                                     Wrap("getting the master user password", out.err))))
              ELSE Set(p, Goto([l EXCEPT !.mupw = ReusedPassword(l.generated, out.SecretString)],
                               "M_modify"))
    /\ UNCHANGED <<inst, secret, snaps, nops, applied, probe>>

\* the modification addressed to the instance the snapshots are taken of
ModifyDBInstanceInput_source(dbID, mupw) ==
    [DBInstanceIdentifier |-> Source, ApplyImmediately |-> TRUE,
     BackupRetentionPeriod |-> 0, MasterUserPassword |-> mupw]

\* lines 507-512: the rds.ModifyDBInstanceInput
ModifyDBInstanceInput(dbID, mupw) ==
    [DBInstanceIdentifier |-> dbID, ApplyImmediately |-> TRUE,
     BackupRetentionPeriod |-> 0, MasterUserPassword |-> mupw]

\* the modification request with its error dropped: Modify goes on to the delay
ModifyRequest_goesOn(p) ==
    /\ loc[p].pc = "M_modify"
    /\ \E out \in InContext(loc[p], ModifyDBInstance(inst, loc[p].mupw)) :
          LET in == ModifyDBInstanceInput(loc[p].dbi.DBInstanceIdentifier, loc[p].mupw)
              l == [Logged(loc[p], Call("ModifyDBInstance", in.DBInstanceIdentifier,
                                         in.MasterUserPassword, <<>>, out.err))
                      EXCEPT !.input = in]
          IN  /\ inst' = out.inst
              /\ applied' = applied \cup {in.MasterUserPassword}
              /\ Set(p, Goto(l, "M_sleep"))
    /\ UNCHANGED <<secret, snaps, nops, probe>>

\* lines 505-514: the modification request
ModifyRequest(p) ==
    /\ loc[p].pc = "M_modify"
    /\ \E out \in InContext(loc[p], ModifyDBInstance(
                        inst, ModifyDBInstanceInput(loc[p].dbi.DBInstanceIdentifier,
                                                    loc[p].mupw).MasterUserPassword)) :
          LET in == ModifyDBInstanceInput(loc[p].dbi.DBInstanceIdentifier, loc[p].mupw)
              l == [Logged(loc[p], Call("ModifyDBInstance", in.DBInstanceIdentifier,
                                         in.MasterUserPassword, <<>>, out.err))
                      EXCEPT !.input = in]
          IN  /\ inst' = out.inst
              /\ applied' = applied \cup {in.MasterUserPassword}
              /\ IF out.err # Nil
                 THEN Set(p, Returned(l, Wrap("modifying the DB instance", out.err)))
                 ELSE Set(p, Goto(l, "M_sleep"))
    /\ UNCHANGED <<secret, snaps, nops, probe>>

\* the settle delay followed by the return, the second wait left out
ModifySleep_skipWait(p) ==
    /\ loc[p].pc = "M_sleep"
    /\ Set(p, Goto(Logged(loc[p], Call("Sleep", "", "", <<>>, Nil)), "M_done"))
    /\ UNCHANGED <<inst, secret, snaps, nops, applied, probe>>

\* line 516: the settle delay
ModifySleep(p) ==
    /\ loc[p].pc = "M_sleep"
    /\ Set(p, Goto(Logged(loc[p], Call("Sleep", "", "", <<>>, Nil)), "M_wait2"))
    /\ UNCHANGED <<inst, secret, snaps, nops, applied, probe>>

\* lines 518-527: the second wait, then success
ModifyWaitAfter(p) ==
    WaitDBInstance(p, "M_wait2", "DBInstanceAvailable",
                   "waiting for the instance to be up and running", "M_done")

ModifyDone(p) ==
    /\ loc[p].pc = "M_done"
    /\ Set(p, Returned(loc[p], Nil))
    /\ UNCHANGED <<inst, secret, snaps, nops, applied, probe>>

----------------------------------------------------------------------------
(* HandleSnapshot *)

\* lines 260-277: the snapshot request
SnapshotCreate(p) ==
    /\ loc[p].pc = "S_create"
    /\ \E out \in InContext(loc[p],
                    CreateDBSnapshot(snaps, dbSnapshotName(Target),
                                     <<Tag("CAVALIER_DB_INSTANCE_IDENTIFIER", Target)>>)) :
          LET l == Logged(loc[p], Call("CreateDBSnapshot", loc[p].SourceDBInstanceIdentifier,
                                        dbSnapshotName(Target),
                                        <<Tag("CAVALIER_DB_INSTANCE_IDENTIFIER", Target)>>,
                                        out.err))
          IN  /\ snaps' = out.snaps
              /\ IF out.err # Nil
                 THEN Set(p, Returned(l, Wrap("creating the DB snapshot", out.err)))
                 ELSE Set(p, Goto(l, "S_wait"))
    /\ UNCHANGED <<inst, secret, nops, applied, probe>>

\* HandleSnapshot going on without the wait for the snapshot
SnapshotWait_skip(p) ==
    /\ loc[p].pc = "S_wait"
    /\ Set(p, Goto(loc[p], IF loc[p].op = "Restore" THEN "R_lookup" ELSE "S_done"))
    /\ UNCHANGED <<inst, secret, snaps, nops, applied, probe>>

\* lines 279-290 and checkWhetherDBSnapshotAvailable; HandleRestore goes on at line 301
SnapshotWait(p) ==
    /\ loc[p].pc = "S_wait"
    /\ \E answer \in InContext(loc[p], PollDBSnapshots(snaps, dbSnapshotName(Target))) :
          Set(p, WaitRound(loc[p], "DBSnapshotAvailable", answer,
                              "waiting for the instance to be up and running",
                              IF loc[p].op = "Restore" THEN "R_lookup" ELSE "S_done"))
    /\ UNCHANGED <<inst, secret, snaps, nops, applied, probe>>

SnapshotDone(p) ==
    /\ loc[p].pc = "S_done"
    /\ Set(p, Returned(loc[p], Nil))
    /\ UNCHANGED <<inst, secret, snaps, nops, applied, probe>>

----------------------------------------------------------------------------
(* HandleRestore *)

\* the tag list without the ownership tag
RestoreTags_noOwner(takeSnapshot) ==
    IF takeSnapshot THEN <<Tag("USE_SNAPSHOT_CREATED_BY_CAVALIER", "true")>> ELSE <<>>

\* lines 313-325: the tags of the restored instance
RestoreTags(takeSnapshot) ==
    <<Tag("CREATED_BY_CAVALIER", "true")>>
    \o (IF takeSnapshot THEN <<Tag("USE_SNAPSHOT_CREATED_BY_CAVALIER", "true")>> ELSE <<>>)

\* the restore from the ARN given in the configuration, whatever the lookup found
RestoreSnapshotARN_given(cfgARN, dbs) == cfgARN

\* line 310: the ARN the restore is made from after the snapshot was taken
RestoreSnapshotARN(cfgARN, dbs) == dbs.DBSnapshotArn

\* lines 301-311: resolve the ARN of the snapshot just taken
RestoreSnapshotLookup(p) ==
    /\ loc[p].pc = "R_lookup"
    /\ \E pages \in PagesInContext(loc[p], DescribeDBSnapshotsPages(snaps, dbSnapshotName(Target),
                                                                  "manual")) :
          LET r == DescribeDBSnapshotByIdentifier(pages, Target)
              l == [Logged(loc[p], Call("DescribeDBSnapshots", dbSnapshotName(Target),
                                         "manual", <<>>, PageError(r.err)))
                      EXCEPT !.pages = pages, !.dbs = r.dbs]
          IN  IF r.err # Nil THEN Set(p, Returned(l, r.err))
              ELSE Set(p, Goto([l EXCEPT !.snapshotARN = RestoreSnapshotARN(l.SnapshotARN, r.dbs)],
                               "R_restore"))
    /\ UNCHANGED <<inst, secret, snaps, nops, applied, probe>>

\* the restore request made a second time when the first one failed
RestoreRequest_again(p) ==
    /\ loc[p].pc = "R_restore"
    /\ \E out \in InContext(loc[p], RestoreDBInstanceFromDBSnapshot(
                                          inst, RestoreTags(loc[p].takeSnapshot))) :
          LET l == Logged(loc[p], Call("RestoreDBInstanceFromDBSnapshot", Target,
                                        loc[p].snapshotARN,
                                        RestoreTags(loc[p].takeSnapshot), out.err))
              first == \A k \in 1..Len(loc[p].calls) :
                          loc[p].calls[k].call # "RestoreDBInstanceFromDBSnapshot"
          IN  /\ inst' = out.inst
              /\ IF out.err # Nil /\ first THEN Set(p, l)
                 ELSE IF out.err # Nil
                 THEN Set(p, Returned(l, Wrap("restoring the db instance", out.err)))
                 ELSE IF out.DBInstance = <<>> THEN Set(p, Panicked(l))
                 ELSE Set(p, Goto(l, "R_wait"))
    /\ UNCHANGED <<secret, snaps, nops, applied, probe>>

\* lines 327-351: the restore request
RestoreRequest(p) ==
    /\ loc[p].pc = "R_restore"
    /\ \E out \in InContext(loc[p], RestoreDBInstanceFromDBSnapshot(
                                          inst, RestoreTags(loc[p].takeSnapshot))) :
          LET l == Logged(loc[p], Call("RestoreDBInstanceFromDBSnapshot", Target,
                                        loc[p].snapshotARN,
                                        RestoreTags(loc[p].takeSnapshot), out.err))
          IN  /\ inst' = out.inst
              /\ IF out.err # Nil
                 THEN Set(p, Returned(l, Wrap("restoring the db instance", out.err)))
                 ELSE IF out.DBInstance = <<>>   \* line 357
                 THEN Set(p, Panicked(l))
                 ELSE Set(p, Goto(l, "R_wait"))
    /\ UNCHANGED <<secret, snaps, nops, applied, probe>>

\* the wait for the new instance with its error dropped: HandleModify in any case
RestoreWait_unchecked(p) ==
    /\ loc[p].pc = "R_wait"
    /\ \E answer \in InContext(loc[p], PollDBInstances(inst)) :
          LET l == WaitRound(loc[p], "DBInstanceAvailable", answer,
                             "waiting for the instance to be up and running", "M_lookup")
          IN  Set(p, IF l.pc = "done" THEN [l EXCEPT !.pc = "M_lookup", !.result = Nil] ELSE l)
    /\ UNCHANGED <<inst, secret, snaps, nops, applied, probe>>

\* lines 353-366: wait for the new instance, then HandleModify
RestoreWait(p) ==
    WaitDBInstance(p, "R_wait", "DBInstanceAvailable",
                   "waiting for the instance to be up and running", "M_lookup")

----------------------------------------------------------------------------
(* The command line: one invocation after the other *)

\* restoreCmd's PreRun without the checks of the two flags
restorePreRun_unchecked(arn, source) == [exit |-> FALSE, takeSnapshot |-> source # ""]

\* cmd/cavalier, restoreCmd's PreRun on the flags --snapshot-arn and
\* --source-db-instance-identifier: whether the command exits, cfg.takeSnapshot if not
restorePreRun(arn, source) ==
    IF arn # "" /\ source # "" THEN [exit |-> TRUE, takeSnapshot |-> FALSE]
    ELSE IF arn = "" /\ source = "" THEN [exit |-> TRUE, takeSnapshot |-> FALSE]
    ELSE [exit |-> FALSE, takeSnapshot |-> source # ""]

\* cmd/cavalier: a subcommand starts its handler on a fresh set of locals
Begin(p) ==
    /\ loc[p].pc \in {"idle", "done", "exited", "panicked"}
    /\ nops < MaxOps
    /\ nops' = nops + 1
    /\ LET l == [ZeroLocals EXCEPT !.inst0 = inst, !.snaps0 = snaps,
                                   !.prev = [op |-> loc[p].op,
                                             ok |-> /\ loc[p].pc = "done"
                                                    /\ loc[p].result = Nil,
                                             takeSnapshot |-> loc[p].takeSnapshot]]
       IN  \/ Set(p, [l EXCEPT !.pc = "T_lookup", !.op = "Terminate"])
           \/ Set(p, [l EXCEPT !.pc = "M_lookup", !.op = "Modify"])
           \/ Set(p, [l EXCEPT !.pc = "S_create", !.op = "Snapshot",
                               !.SourceDBInstanceIdentifier = Source])
           \/ \E arn \in {"", GivenARN} : \E source \in {"", Source} :
                 LET pre == restorePreRun(arn, source)
                     r == [l EXCEPT !.op = "Restore", !.SnapshotARN = arn,
                                    !.SourceDBInstanceIdentifier = source]
                 IN  IF pre.exit
                     THEN Set(p, [r EXCEPT !.pc = "exited", !.result = <<"exit status 1">>])
                     ELSE IF pre.takeSnapshot
                     THEN Set(p, [r EXCEPT !.pc = "S_create", !.takeSnapshot = TRUE,
                                           !.snapshotARN = arn])
                     ELSE Set(p, [r EXCEPT !.pc = "R_restore", !.snapshotARN = arn])
    /\ UNCHANGED <<inst, secret, snaps, applied, probe>>

\* the caller cancels the context of the running handler
Cancel(p) ==
    /\ loc[p].pc \notin {"idle", "done", "exited", "panicked"}
    /\ loc[p].ctx = "live"
    /\ Set(p, [loc[p] EXCEPT !.ctx = "cancelled"])
    /\ UNCHANGED <<inst, secret, snaps, nops, applied, probe>>

----------------------------------------------------------------------------
(* Initial states: what the services can hold before the first invocation *)

OwnerTags ==
    {<<>>} \cup {<<Tag("CREATED_BY_CAVALIER", v)>> : v \in {"true", "false", "yes"}}

UsageTags == {<<>>, <<Tag("USE_SNAPSHOT_CREATED_BY_CAVALIER", "true")>>}

InitInstances ==
    {Absent} \cup {Present(o \o u, "available", "pwInit") : o \in OwnerTags, u \in UsageTags}

LinkTags ==
    {<<>>, <<Tag("CAVALIER_DB_INSTANCE_IDENTIFIER", Target)>>,
     <<Tag("CAVALIER_DB_INSTANCE_IDENTIFIER", "other")>>}

\* snapshot identifiers are unique in the service: at most one snapshot under the
\* target's snapshot name and at most one under another instance's
InitSnapshots ==
    {a \o b :
        a \in {<<>>} \cup {<<DBSnapshot(dbSnapshotName(Target), "manual", t, "available")>> :
                              t \in LinkTags},
        b \in {<<>>} \cup {<<DBSnapshot(dbSnapshotName("other"), "manual", t, "available")>> :
                              t \in LinkTags \ {<<>>}}}

Init ==
    /\ inst \in InitInstances
    /\ secret \in {NoSecret, "pwStored"}
    /\ snaps \in InitSnapshots
    /\ loc = [p \in Procs |-> ZeroLocals]
    /\ nops = 0
    /\ applied = {}
    /\ probe = NoProbe

\* the services complete, on their own, what was asked of them
ServiceProgress ==
    /\ \/ inst' \in InstanceProgress(inst) /\ UNCHANGED snaps
       \/ snaps' \in SnapshotProgress(snaps) /\ UNCHANGED inst
    /\ UNCHANGED <<secret, loc, nops, applied, probe>>

Next ==
    \/ ServiceProgress
    \/ \E p \in Procs :
        \/ Begin(p)
        \/ Cancel(p)
        \/ TerminateLookup(p)
        \/ TerminateDelete(p)
        \/ TerminateSleep(p)
        \/ TerminateWait(p)
        \/ TerminateSecret(p)
        \/ TerminateSnapshotLookup(p)
        \/ TerminateSnapshotDelete(p)
        \/ ModifyLookup(p)
        \/ ModifyWaitBefore(p)
        \/ ModifyCreateSecret(p)
        \/ ModifyGetSecret(p)
        \/ ModifyRequest(p)
        \/ ModifySleep(p)
        \/ ModifyWaitAfter(p)
        \/ ModifyDone(p)
        \/ SnapshotCreate(p)
        \/ SnapshotWait(p)
        \/ SnapshotDone(p)
        \/ RestoreSnapshotLookup(p)
        \/ RestoreRequest(p)
        \/ RestoreWait(p)

Spec == Init /\ [][Next]_vars

\* the next step of the handler running in process p
HandlerStep(p) ==
    \/ TerminateLookup(p)
    \/ TerminateDelete(p)
    \/ TerminateSleep(p)
    \/ TerminateWait(p)
    \/ TerminateSecret(p)
    \/ TerminateSnapshotLookup(p)
    \/ TerminateSnapshotDelete(p)
    \/ ModifyLookup(p)
    \/ ModifyWaitBefore(p)
    \/ ModifyCreateSecret(p)
    \/ ModifyGetSecret(p)
    \/ ModifyRequest(p)
    \/ ModifySleep(p)
    \/ ModifyWaitAfter(p)
    \/ ModifyDone(p)
    \/ SnapshotCreate(p)
    \/ SnapshotWait(p)
    \/ SnapshotDone(p)
    \/ RestoreSnapshotLookup(p)
    \/ RestoreRequest(p)
    \/ RestoreWait(p)

\* the program runs: a handler that can take its next step takes it (every
\* request gets an answer, every delay ends); the services and the caller are
\* under no obligation
LiveSpec == Spec /\ \A p \in Procs : WF_vars(HandlerStep(p))

----------------------------------------------------------------------------
(* Two invocations of the modify command at once against the one target.    *)
(* HandleModify holds no lock: the steps of the two handlers interleave in   *)
(* any order, each request being answered by the services atomically.        *)

Racers == {"m1", "m2"}

\* the instance is there and owned; the secret may be left from an earlier run
RaceInit ==
    /\ inst = Present(<<Tag("CREATED_BY_CAVALIER", "true")>>, "available", "pwInit")
    /\ secret \in {NoSecret, "pwStored"}
    /\ snaps = <<>>
    /\ loc = [p \in Racers |-> ZeroLocals]
    /\ nops = 0
    /\ applied = {}
    /\ probe = NoProbe

\* cmd/cavalier, modifyCmd: the command of process p calls HandleModify
RaceBegin(p) ==
    /\ loc[p].pc = "idle"
    /\ nops' = nops + 1
    /\ Set(p, [ZeroLocals EXCEPT !.pc = "M_lookup", !.op = "Modify",
                                 !.inst0 = inst, !.snaps0 = snaps])
    /\ UNCHANGED <<inst, secret, snaps, applied, probe>>

RaceNext ==
    \/ ServiceProgress
    \/ \E p \in Racers :
        \/ RaceBegin(p)
        \/ Cancel(p)
        \/ ModifyLookup(p)
        \/ ModifyWaitBefore(p)
        \/ ModifyCreateSecret(p)
        \/ ModifyGetSecret(p)
        \/ ModifyRequest(p)
        \/ ModifySleep(p)
        \/ ModifyWaitAfter(p)
        \/ ModifyDone(p)

RaceSpec == RaceInit /\ [][RaceNext]_vars

----------------------------------------------------------------------------
(* The policy functions on their own: each is applied to an input drawn     *)
(* from a set of cases, with the services and the handlers left idle.       *)

\* tag keys and values of the cases: the spellings strconv.ParseBool accepts for
\* true and for false, and values it rejects
PolicyKeys == {"CREATED_BY_CAVALIER", "USE_SNAPSHOT_CREATED_BY_CAVALIER", "created_by_cavalier"}

PolicyValues == {"true", "TRUE", "1", "false", "0", "yes", "tRuE", ""}

\* the tag lists of a resource: the service keeps the keys of a resource distinct
PolicyTagLists ==
    {<<>>}
    \cup {<<Tag(k, v)>> : k \in PolicyKeys, v \in PolicyValues}
    \cup {<<Tag(k1, v1), Tag(k2, v2)>> :
              k1 \in PolicyKeys, k2 \in PolicyKeys \ {"USE_SNAPSHOT_CREATED_BY_CAVALIER"},
              v1 \in PolicyValues, v2 \in PolicyValues}

Applied(fn) == probe.fn = fn /\ probe.out # <<>>

\* the character sets of the password generator: its letters and digits, and the
\* symbols the generator is constructed with
LowerLetters ==
    <<"a", "b", "c", "d", "e", "f", "g", "h", "i", "j", "k", "l", "m",
      "n", "o", "p", "q", "r", "s", "t", "u", "v", "w", "x", "y", "z">>

UpperLetters ==
    <<"A", "B", "C", "D", "E", "F", "G", "H", "I", "J", "K", "L", "M",
      "N", "O", "P", "Q", "R", "S", "T", "U", "V", "W", "X", "Y", "Z">>

Digits == <<"0", "1", "2", "3", "4", "5", "6", "7", "8", "9">>

\* each character is a one-character string; "<backquote>" stands for the backquote
masterUserPasswordSymbols ==
    <<"~", "!", "#", "$", "%", "^", "&", "*", "(", ")", "_", "+", "<backquote>", "-", "=",
      "{", "}", "|", "[", "]", "\\", ":", "<", ">", "?", ",", ".">>

\* the arguments of a call with one symbol fewer
generateMasterUserPassword_fewerSymbols ==
    [length |-> 41, numDigits |-> 10, numSymbols |-> 9, noUpper |-> FALSE, allowRepeat |-> FALSE]

\* generateMasterUserPassword: the arguments it calls the generator with
generateMasterUserPassword ==
    [length |-> 41, numDigits |-> 10, numSymbols |-> 10, noUpper |-> FALSE, allowRepeat |-> FALSE]

Range(s) == {s[k] : k \in 1..Len(s)}

\* the letters the generator draws from
GeneratorLetters(args) == IF args.noUpper THEN LowerLetters ELSE LowerLetters \o UpperLetters

\* the number of letters of the password
GeneratorChars(args) == args.length - args.numDigits - args.numSymbols

\* the generator refuses arguments its character sets cannot serve
GeneratorRefuses(args) ==
    \/ GeneratorChars(args) < 0
    \/ /\ ~args.allowRepeat
       /\ \/ GeneratorChars(args) > Len(GeneratorLetters(args))
          \/ args.numDigits > Len(Digits)
          \/ args.numSymbols > Len(masterUserPasswordSymbols)

\* the characters a draw from pool can add to the password built so far: without
\* repeats a drawn character that is in the password already is drawn again; of
\* the characters left, the cases are the first and the last of the pool
Draws(pool, result, allowRepeat) ==
    LET left == {k \in 1..Len(pool) : allowRepeat \/ pool[k] \notin BagToSet(result)}
        first == {a \in left : \A b \in left : a <= b}
        last == {a \in left : \A b \in left : a >= b}
    IN  {pool[k] : k \in first \cup last}

\* the generator before its first draw; the password is kept as the bag of its
\* characters, their places in it left out
GeneratorStart(args) ==
    [fn |-> "generateMasterUserPassword", in |-> args, out |-> <<>>,
     result |-> EmptyBag, stage |-> "letters", i |-> 0]

\* the poll outcomes the retry rule is applied to: the resource kinds, the
\* statuses a poll returned, and its error (none, errors that are no API error,
\* API errors bare and wrapped, among them ExpiredToken)
RetryKinds == {"DBInstanceAvailable", "DBInstanceDeleted", "DBSnapshotAvailable"}

RetryStatuses ==
    {<<>>, <<"available">>, <<"creating">>, <<"deleting">>, <<"failed">>,
     <<"available", "creating">>, <<"available", "available">>}

RetryErrors ==
    {Nil, ServiceError, Canceled, Wrap("operation error", ServiceError)}
    \cup {<<c>> : c \in APIErrorCodes}
    \cup {Wrap("operation error", <<c>>) : c \in APIErrorCodes}
    \cup {<<"DBInstanceNotFoundFault", "ExpiredToken">>,
          <<"ExpiredToken", "DBInstanceNotFoundFault">>}

\* the snapshots the link test is applied to: instance identifiers and tag
\* values that are an identifier, a prefix or a suffix of it, or another spelling
LinkIdentifiers == {"test", "other", ""}

LinkKeys == {"CAVALIER_DB_INSTANCE_IDENTIFIER", "CREATED_BY_CAVALIER",
             "cavalier_db_instance_identifier"}

LinkValues == {"test", "tes", "est", "test2", "Test", "test-cavalier", "other", ""}

LinkTagLists ==
    {<<>>}
    \cup {<<Tag(k, v)>> : k \in LinkKeys, v \in LinkValues}
    \cup {<<Tag(k, v1), Tag("CAVALIER_DB_INSTANCE_IDENTIFIER", v2)>> :
              k \in LinkKeys, v1 \in LinkValues, v2 \in LinkValues}

PolicyInit ==
    /\ inst = Absent
    /\ secret = NoSecret
    /\ snaps = <<>>
    /\ loc = [p \in Procs |-> ZeroLocals]
    /\ nops = 0
    /\ applied = {}
    /\ \/ probe \in {[fn |-> "isCreatedByCavalier", in |-> tags, out |-> <<>>] :
                        tags \in {t \in PolicyTagLists : Len(t) < 2 \/ t[1].Key # t[2].Key}}
       \/ probe = GeneratorStart(generateMasterUserPassword)
       \/ probe \in {[fn |-> "isSnapshotCreatedByCavalier",
                       in |-> [dbi |-> d, TagList |-> t], out |-> <<>>] :
                         d \in LinkIdentifiers, t \in LinkTagLists}
       \/ probe \in {[fn |-> "setCustomRDSRetryable",
                       in |-> [kind |-> k, statuses |-> st, err |-> e], out |-> <<>>] :
                         k \in RetryKinds, st \in RetryStatuses, e \in RetryErrors}

ApplyIsCreatedByCavalier ==
    /\ probe.fn = "isCreatedByCavalier"
    /\ probe.out = <<>>
    /\ probe' = [probe EXCEPT
                    !.out = <<isCreatedByCavalier([ZeroDBInstance EXCEPT !.TagList = probe.in])>>]
    /\ UNCHANGED <<inst, secret, snaps, loc, nops, applied>>

ApplyIsSnapshotCreatedByCavalier ==
    /\ probe.fn = "isSnapshotCreatedByCavalier"
    /\ probe.out = <<>>
    /\ probe' = [probe EXCEPT
                    !.out = <<isSnapshotCreatedByCavalier(
                                  probe.in.dbi,
                                  [ZeroDBSnapshot EXCEPT !.TagList = probe.in.TagList])>>]
    /\ UNCHANGED <<inst, secret, snaps, loc, nops, applied>>

\* the installed retry rule on one poll outcome: the answer of waiterRetryable,
\* which it asks first, and the decision it returns
ApplySetCustomRDSRetryable ==
    /\ probe.fn = "setCustomRDSRetryable"
    /\ probe.out = <<>>
    /\ probe' = [probe EXCEPT
                    !.out = <<[own |-> waiterRetryable(probe.in.err),
                               decision |-> setCustomRDSRetryable(probe.in.kind,
                                                                  probe.in.statuses,
                                                                  probe.in.err)]>>]
    /\ UNCHANGED <<inst, secret, snaps, loc, nops, applied>>

Generating(stage) ==
    /\ probe.fn = "generateMasterUserPassword"
    /\ probe.out = <<>>
    /\ probe.stage = stage

\* one round of one of the generator's three loops: a character of the pool is
\* inserted into the password
GenerateInsert(pool, count, nextStage) ==
    IF probe.i < count
    THEN \E ch \in Draws(pool, probe.result, probe.in.allowRepeat) :
            probe' = [probe EXCEPT !.result = @ (+) SetToBag({ch}), !.i = @ + 1]
    ELSE probe' = [probe EXCEPT !.stage = nextStage, !.i = 0]

GenerateLetter ==
    /\ Generating("letters")
    /\ ~GeneratorRefuses(probe.in)
    /\ GenerateInsert(GeneratorLetters(probe.in), GeneratorChars(probe.in), "digits")
    /\ UNCHANGED <<inst, secret, snaps, loc, nops, applied>>

GenerateDigit ==
    /\ Generating("digits")
    /\ GenerateInsert(Digits, probe.in.numDigits, "symbols")
    /\ UNCHANGED <<inst, secret, snaps, loc, nops, applied>>

GenerateSymbol ==
    /\ Generating("symbols")
    /\ GenerateInsert(masterUserPasswordSymbols, probe.in.numSymbols, "return")
    /\ UNCHANGED <<inst, secret, snaps, loc, nops, applied>>

\* the source of randomness fails in a draw
GenerateReaderError ==
    /\ probe.fn = "generateMasterUserPassword"
    /\ probe.out = <<>>
    /\ probe.stage # "return"
    /\ probe' = [probe EXCEPT !.out = <<[password |-> EmptyBag, err |-> <<"reader error">>]>>]
    /\ UNCHANGED <<inst, secret, snaps, loc, nops, applied>>

GenerateReturn ==
    /\ Generating("return")
    /\ probe' = [probe EXCEPT !.out = <<[password |-> probe.result, err |-> Nil]>>]
    /\ UNCHANGED <<inst, secret, snaps, loc, nops, applied>>

PolicyNext ==
    \/ ApplyIsCreatedByCavalier
    \/ ApplyIsSnapshotCreatedByCavalier
    \/ ApplySetCustomRDSRetryable
    \/ GenerateLetter
    \/ GenerateDigit
    \/ GenerateSymbol
    \/ GenerateReaderError
    \/ GenerateReturn

PolicySpec == PolicyInit /\ [][PolicyNext]_vars

----------------------------------------------------------------------------
(* Vocabulary of the properties *)

\* the handler op has returned in process p
Done(p, op) == loc[p].pc = "done" /\ loc[p].op = op

\* the requests named name that process p has issued in this invocation
Issued(p, name) == {k \in 1..Len(loc[p].calls) : loc[p].calls[k].call = name}

CallNames(p) == [k \in 1..Len(loc[p].calls) |-> loc[p].calls[k].call]

\* every request of the invocation returned without an error
AllSucceeded(p) == \A k \in 1..Len(loc[p].calls) : loc[p].calls[k].err = Nil

\* the ownership lookup of the invocation found exactly one instance
FoundOne(p) ==
    /\ Issued(p, "DescribeDBInstances") # {}
    /\ loc[p].resp.err = Nil
    /\ Len(loc[p].resp.DBInstances) = 1

\* the tag list holds the ownership tag with a boolean-true value
OwnedTags(tags) ==
    \E k \in 1..Len(tags) :
        /\ tags[k].Key = "CREATED_BY_CAVALIER"
        /\ tags[k].Value \in {"1", "t", "T", "TRUE", "true", "True"}
        /\ \A j \in 1..(k - 1) : tags[j].Key # "CREATED_BY_CAVALIER"

\* the ownership lookup found exactly one instance, and it is not cavalier-owned
FoundUnowned(p) == FoundOne(p) /\ ~OwnedTags(loc[p].resp.DBInstances[1].TagList)

FoundOwned(p) == FoundOne(p) /\ OwnedTags(loc[p].resp.DBInstances[1].TagList)

\* the snapshot carries the link tag with exactly the value id
HasLinkTag(s, id) ==
    \E k \in 1..Len(s.TagList) :
        s.TagList[k] = [Key |-> "CAVALIER_DB_INSTANCE_IDENTIFIER", Value |-> id]

\* the snapshots of ss a lookup for instance id is about
LinkedSnapshots(ss, id) ==
    {k \in 1..Len(ss) : /\ ss[k].DBSnapshotIdentifier = id \o "-cavalier"
                        /\ ss[k].SnapshotType = "manual"
                        /\ HasLinkTag(ss[k], id)}

SecretName == "cavalier/test"

SnapshotName == "test-cavalier"

----------------------------------------------------------------------------
(* C1: when Terminate's lookup finds exactly one instance and it is not     *)
(* cavalier-owned, Terminate returns exactly the ownership-violation        *)
(* sentinel errDBNotCreatedByCavalier and issues no DeleteDBInstance,       *)
(* DeleteSecret, DescribeDBSnapshots or DeleteDBSnapshot.                   *)
C1_UnownedTerminateReturnsSentinel ==
    \A p \in Procs :
        (Done(p, "Terminate") /\ FoundUnowned(p)) =>
            /\ ErrorsIs(loc[p].result, errDBNotCreatedByCavalier)
            /\ \A n \in {"DeleteDBInstance", "DeleteSecret", "DescribeDBSnapshots",
                         "DeleteDBSnapshot"} : Issued(p, n) = {}

(* C2: when the instance is not cavalier-owned, Modify fails with           *)
(* errDBNotCreatedByCavalier and issues no wait, CreateSecret,              *)
(* GetSecretValue or ModifyDBInstance; and ModifyDBInstance is only ever    *)
(* issued after the ownership lookup of the same invocation said owned.     *)
C2_UnownedModifyFailsClosed ==
    \A p \in Procs :
        /\ (Done(p, "Modify") /\ FoundUnowned(p)) =>
              /\ ErrorsIs(loc[p].result, errDBNotCreatedByCavalier)
              /\ \A n \in {"WaitDBInstanceAvailable", "CreateSecret", "GetSecretValue",
                           "ModifyDBInstance"} : Issued(p, n) = {}
        /\ \A k \in Issued(p, "ModifyDBInstance") :
              /\ FoundOwned(p)
              /\ \E j \in Issued(p, "DescribeDBInstances") : j < k

(* C3: Terminate of a found, owned instance that carries the usage-link tag *)
(* and has a linked snapshot, every request answering without an error,     *)
(* issues delete-instance, the wait for deleted, delete-secret and          *)
(* delete-snapshot once each, in that order, and returns success.           *)
C3_TerminateHappyPathOrder ==
    \A p \in Procs :
        (/\ Done(p, "Terminate")
         /\ FoundOwned(p)
         /\ doesUseSnapshotCreatedByCavalier(loc[p].resp.DBInstances[1].TagList)
         /\ LinkedSnapshots(loc[p].snaps0, Target) # {}
         /\ AllSucceeded(p)) =>
            /\ loc[p].result = Nil
            /\ CallNames(p) = <<"DescribeDBInstances", "DeleteDBInstance", "Sleep",
                                "WaitDBInstanceDeleted", "DeleteSecret",
                                "DescribeDBSnapshots", "DeleteDBSnapshot">>
            /\ loc[p].calls[2].id = Target
            /\ loc[p].calls[5].id = SecretName
            /\ loc[p].calls[7].id = SnapshotName

C3_Witness ==
    \E p \in Procs :
        /\ Done(p, "Terminate")
        /\ FoundOwned(p)
        /\ doesUseSnapshotCreatedByCavalier(loc[p].resp.DBInstances[1].TagList)
        /\ LinkedSnapshots(loc[p].snaps0, Target) # {}
        /\ AllSucceeded(p)
        /\ Issued(p, "DeleteDBSnapshot") # {}
        /\ LinkedSnapshots(snaps, Target) = {}
        /\ ~inst.exists

(* C4: when Terminate's lookup fails with instance-not-found, Terminate     *)
(* issues no DeleteDBInstance, still force-deletes the secret               *)
(* <prefix>/<id>, still looks up the snapshot <id>-cavalier, and returns    *)
(* success, also when the listing holds only a snapshot without link tag.   *)
C4_TerminateOfAbsentInstance ==
    \A p \in Procs :
        (Done(p, "Terminate") /\ loc[p].dbAlreadyDeleted) =>
            /\ Issued(p, "DeleteDBInstance") = {}
            /\ \E k \in Issued(p, "DeleteSecret") :
                  /\ loc[p].calls[k].id = SecretName
                  /\ loc[p].calls[k].arg = "ForceDeleteWithoutRecovery"
            /\ (\A k \in Issued(p, "DeleteSecret") : loc[p].calls[k].err = Nil) =>
                  \E k \in Issued(p, "DescribeDBSnapshots") : loc[p].calls[k].id = SnapshotName
            /\ (\A k \in 2..Len(loc[p].calls) : loc[p].calls[k].err = Nil) =>
                  loc[p].result = Nil

(* C5 as claimed: Terminate issues DeleteDBSnapshot only if the instance it  *)
(* looked up carries USE_SNAPSHOT_CREATED_BY_CAVALIER with a boolean-true   *)
(* value; for an owned instance without that tag the snapshot               *)
(* <id>-cavalier is never deleted.                                          *)
C5_SnapshotDeletedOnlyWithUsageTag ==
    \A p \in Procs :
        (loc[p].op = "Terminate" /\ Issued(p, "DeleteDBSnapshot") # {}) =>
            /\ FoundOne(p)
            /\ doesUseSnapshotCreatedByCavalier(loc[p].resp.DBInstances[1].TagList)

(* C5 as amended: once Terminate's snapshot lookup has returned, it issues  *)
(* DeleteDBSnapshot exactly when the snapshot found carries the link tag    *)
(* equal to the instance identifier; the usage-link tag of the instance is  *)
(* not consulted, so the linked snapshot of an owned instance without the   *)
(* usage-link tag is deleted too.                                           *)
C5_SnapshotDeletedByLinkTagAlone ==
    \A p \in Procs :
        (/\ Done(p, "Terminate")
         /\ \E k \in Issued(p, "DescribeDBSnapshots") : loc[p].calls[k].err = Nil) =>
            (Issued(p, "DeleteDBSnapshot") # {}
                <=> LinkedSnapshots(loc[p].snaps0, Target) # {})

C5_Witness ==
    \E p \in Procs :
        /\ Done(p, "Terminate")
        /\ FoundOwned(p)
        /\ ~doesUseSnapshotCreatedByCavalier(loc[p].resp.DBInstances[1].TagList)
        /\ \E k \in Issued(p, "DeleteDBSnapshot") : loc[p].calls[k].err = Nil
        /\ LinkedSnapshots(loc[p].snaps0, Target) # {}
        /\ LinkedSnapshots(snaps, Target) = {}

(* C6: in Terminate of an owned instance, when the lookup by the            *)
(* deterministic name returns a snapshot whose link tag equals the instance *)
(* identifier, DeleteDBSnapshot is called with that snapshot's identifier   *)
(* and Terminate returns success when that request succeeds.                *)
C6_LinkedSnapshotIsDeleted ==
    \A p \in Procs :
        (Done(p, "Terminate") /\ FoundOwned(p) /\ HasLinkTag(loc[p].dbs, Target)) =>
            LET last == loc[p].calls[Len(loc[p].calls)]
            IN  /\ Cardinality(Issued(p, "DeleteDBSnapshot")) = 1
                /\ last.call = "DeleteDBSnapshot"
                /\ last.id = loc[p].dbs.DBSnapshotIdentifier
                /\ last.id = SnapshotName
                /\ (last.err = Nil) <=> (loc[p].result = Nil)

C6_Witness ==
    \E p \in Procs :
        /\ Done(p, "Terminate")
        /\ FoundOwned(p)
        /\ loc[p].resp.DBInstances[1].TagList = <<Tag("CREATED_BY_CAVALIER", "true")>>
        /\ HasLinkTag(loc[p].dbs, Target)
        /\ loc[p].result = Nil
        /\ Issued(p, "DeleteDBSnapshot") # {}

\* the snapshots that a step removes from the service
Removed(before, after) ==
    {k \in 1..Len(before) :
        ~\E j \in 1..Len(after) :
            after[j].DBSnapshotIdentifier = before[k].DBSnapshotIdentifier}

(* C7: in every operation, DeleteDBSnapshot is issued only for a snapshot   *)
(* that was listed under the name <target>-cavalier, type manual, and whose *)
(* link tag equals the target identifier exactly; a snapshot with a missing *)
(* or different link tag is never deleted.                                  *)
C7_OnlyLinkedSnapshotsDeleted ==
    /\ [](\A p \in Procs : \A k \in Issued(p, "DeleteDBSnapshot") :
            /\ loc[p].calls[k].id = SnapshotName
            /\ \E j \in Issued(p, "DescribeDBSnapshots") :
                  /\ j < k
                  /\ loc[p].calls[j].id = SnapshotName
                  /\ loc[p].calls[j].arg = "manual"
            /\ \E g \in 1..Len(loc[p].pages) : \E j \in 1..Len(loc[p].pages[g].DBSnapshots) :
                  LET listed == loc[p].pages[g].DBSnapshots[j]
                  IN  /\ listed.DBSnapshotIdentifier = loc[p].calls[k].id
                      /\ listed.SnapshotType = "manual"
                      /\ HasLinkTag(listed, Target))
    /\ [][\A k \in Removed(snaps, snaps') :
            /\ snaps[k].DBSnapshotIdentifier = SnapshotName
            /\ snaps[k].SnapshotType = "manual"
            /\ HasLinkTag(snaps[k], Target)]_vars

C7_Witness ==
    \E p \in Procs :
        /\ \E k \in Issued(p, "DeleteDBSnapshot") : loc[p].calls[k].err = Nil
        /\ Len(snaps) < Len(loc[p].snaps0)
        /\ \E k \in 1..Len(snaps) : ~HasLinkTag(snaps[k], Target)

(* C8: Terminate of an owned instance for which no linked snapshot exists   *)
(* (the listing is empty, answers snapshot-not-found, or holds no snapshot  *)
(* with a matching link tag) tolerates the absence: having deleted the      *)
(* instance and the secret it returns success and issues no                 *)
(* DeleteDBSnapshot.                                                        *)
C8_AbsentSnapshotTolerated ==
    \A p \in Procs :
        (/\ Done(p, "Terminate")
         /\ FoundOwned(p)
         /\ LinkedSnapshots(loc[p].snaps0, Target) = {}
         /\ \E k \in Issued(p, "DeleteSecret") : loc[p].calls[k].err = Nil
         /\ \E k \in Issued(p, "DescribeDBSnapshots") :
               loc[p].calls[k].err \in {Nil, DBSnapshotNotFoundFault}) =>
            /\ loc[p].result = Nil
            /\ Issued(p, "DeleteDBSnapshot") = {}

(* C9: when CreateSecret fails with resource-exists, Modify calls           *)
(* GetSecretValue for the same secret name <prefix>/<id> and passes the     *)
(* stored value it returns, not the newly generated password, to            *)
(* ModifyDBInstance; when GetSecretValue fails, Modify ends with an error   *)
(* and issues no ModifyDBInstance.                                          *)
C9_ExistingSecretIsReused ==
    \A p \in Procs : \A k \in Issued(p, "CreateSecret") :
        LET c == loc[p].calls
            n == Len(c)
        IN  ErrorsAs(c[k].err, "ResourceExistsException") =>
              /\ c[k].id = SecretName
              /\ Issued(p, "CreateSecret") = {k}
              /\ \/ k = n /\ loc[p].pc = "M_get"
                 \/ /\ k < n
                    /\ c[k + 1].call = "GetSecretValue"
                    /\ c[k + 1].id = c[k].id
                    /\ Cardinality(Issued(p, "GetSecretValue")) = 1
                    /\ IF c[k + 1].err = Nil
                       THEN /\ c[k + 1].arg = secret
                            /\ \/ k + 1 = n /\ loc[p].pc = "M_modify"
                               \/ /\ k + 1 < n
                                  /\ c[k + 2].call = "ModifyDBInstance"
                                  /\ c[k + 2].arg = c[k + 1].arg
                                  /\ Issued(p, "ModifyDBInstance") = {k + 2}
                       ELSE /\ k + 1 = n
                            /\ loc[p].pc = "done"
                            /\ loc[p].result # Nil
                            /\ Issued(p, "ModifyDBInstance") = {}

C9_Witness ==
    \E p \in Procs : \E k \in Issued(p, "ModifyDBInstance") :
        /\ k > 2
        /\ loc[p].calls[k - 1].call = "GetSecretValue"
        /\ ErrorsAs(loc[p].calls[k - 2].err, "ResourceExistsException")
        /\ loc[p].calls[k].arg = "pwStored"
        /\ loc[p].generated = "pwA"
        /\ inst.pw = "pwStored"

(* C10: over any sequence of Modify invocations on the same identifier with *)
(* no Terminate deleting the secret in between, once a secret exists every  *)
(* ModifyDBInstance request carries the same master password, the stored    *)
(* secret value, and the stored secret value is never overwritten.          *)
C10_PasswordIdentityAcrossModifies ==
    /\ [](applied \subseteq {secret} /\ (secret = NoSecret => applied = {}))
    /\ [][(secret # NoSecret /\ secret' # secret) =>
            (secret' = NoSecret /\ \E p \in Procs : loc[p].pc = "T_secret")]_vars

C10_Witness ==
    /\ nops = 2
    /\ applied = {"pwA"}
    /\ secret = "pwA"
    /\ \E p \in Procs :
          /\ Done(p, "Modify")
          /\ loc[p].result = Nil
          /\ loc[p].generated = "pwB"
          /\ loc[p].inst0.pw = "pwA"
          /\ \E k \in Issued(p, "ModifyDBInstance") : loc[p].calls[k].arg = "pwA"

----------------------------------------------------------------------------
\* the three waits and the operations' wrappers around them
WaitKinds == {"DBInstanceAvailable", "DBInstanceDeleted", "DBSnapshotAvailable"}

WaitCalls == {"Wait" \o k : k \in WaitKinds}

WaitMessages ==
    {"waiting for the instance to be up and running", "waiting for the instance to be deleted"}

\* the last request of the invocation
LastCall(p) == loc[p].calls[Len(loc[p].calls)]

(* C11: in each of the three waits, when a poll answers with an API error   *)
(* whose code is ExpiredToken, the retry rule decides "do not retry" with   *)
(* that same error and without falling through to the default rule; the     *)
(* wait ends at once, not as a timeout, and the operation returns an error  *)
(* that wraps the ExpiredToken fault.                                       *)
C11_ExpiredTokenAbortsWait ==
    \A p \in Procs :
        ErrorsAs(loc[p].polled.err, "ExpiredToken") =>
            /\ ~ErrorsIs(waiterRetryable(loc[p].polled.err).rerr, errSkipRetrable)
            /\ \A kind \in WaitKinds :
                  setCustomRDSRetryable(kind, loc[p].polled.statuses, loc[p].polled.err)
                      = [retry |-> FALSE, err |-> loc[p].polled.err]
            /\ loc[p].pc = "done"
            /\ LastCall(p).call \in WaitCalls
            /\ LastCall(p).err = loc[p].polled.err
            /\ \E msg \in WaitMessages : loc[p].result = Wrap(msg, loc[p].polled.err)
            /\ ErrorsIs(loc[p].result, ExpiredToken)
            /\ \A kind \in WaitKinds : ~ErrorsIs(loc[p].result, exceededMaxWait(kind))

C11_Witness ==
    \E p \in Procs :
        /\ Done(p, "Terminate")
        /\ loc[p].polled.err = ExpiredToken
        /\ LastCall(p).call = "WaitDBInstanceDeleted"
        /\ ErrorsIs(loc[p].result, ExpiredToken)
        /\ inst.exists
        /\ inst.status = "deleting"

\* the tag list holds the tag key = value
HasTag(tags, key, value) ==
    \E k \in 1..Len(tags) : tags[k] = [Key |-> key, Value |-> value]

(* C12: every RestoreDBInstanceFromDBSnapshot request of Restore carries    *)
(* CREATED_BY_CAVALIER=true, and carries                                    *)
(* USE_SNAPSHOT_CREATED_BY_CAVALIER=true exactly when cfg.takeSnapshot is   *)
(* set (the snapshot was taken by this invocation); no step of the tool     *)
(* brings an instance into existence without the ownership tag.             *)
C12_RestoreCarriesOwnershipTag ==
    /\ [](\A p \in Procs : \A k \in Issued(p, "RestoreDBInstanceFromDBSnapshot") :
            /\ loc[p].op = "Restore"
            /\ HasTag(loc[p].calls[k].tags, "CREATED_BY_CAVALIER", "true")
            /\ HasTag(loc[p].calls[k].tags, "USE_SNAPSHOT_CREATED_BY_CAVALIER", "true")
                  <=> loc[p].takeSnapshot
            /\ loc[p].takeSnapshot
                  <=> \E j \in Issued(p, "CreateDBSnapshot") : j < k)
    /\ [][(~inst.exists /\ inst'.exists) =>
            /\ HasTag(inst'.TagList, "CREATED_BY_CAVALIER", "true")
            /\ OwnedTags(inst'.TagList)
            /\ \E p \in Procs : loc[p].pc = "R_restore"]_vars

C12_Witness ==
    \E p \in Procs :
        /\ loc[p].op = "Restore"
        /\ loc[p].takeSnapshot
        /\ \E k \in Issued(p, "RestoreDBInstanceFromDBSnapshot") : loc[p].calls[k].err = Nil
        /\ ~loc[p].inst0.exists
        /\ inst.exists
        /\ inst.TagList = <<[Key |-> "CREATED_BY_CAVALIER", Value |-> "true"],
                            [Key |-> "USE_SNAPSHOT_CREATED_BY_CAVALIER", Value |-> "true"]>>

\* the requests by which Terminate destroys or cleans up
TerminateEffects == {"DeleteDBInstance", "DeleteSecret", "DescribeDBSnapshots", "DeleteDBSnapshot"}

(* C13: when Terminate's instance lookup fails with an error other than     *)
(* instance-not-found (the request fails, or it returns zero or several     *)
(* instances), Terminate returns an error that wraps that lookup error, in  *)
(* the sense of errors.Is, and issues no DeleteDBInstance, DeleteSecret,    *)
(* DescribeDBSnapshots or DeleteDBSnapshot.                                 *)
C13_TerminateLookupErrorPropagates ==
    \A p \in Procs :
        (/\ Done(p, "Terminate")
         /\ ~IsDBInstanceNotFound(loc[p].resp.err)
         /\ loc[p].resp.err # Nil \/ Len(loc[p].resp.DBInstances) # 1) =>
            /\ loc[p].result # Nil
            /\ loc[p].resp.err # Nil =>
                  /\ ErrorsIs(loc[p].result, loc[p].resp.err)
                  /\ LastCall(p).err = loc[p].resp.err
            /\ CallNames(p) = <<"DescribeDBInstances">>
            /\ \A n \in TerminateEffects : Issued(p, n) = {}

C13_Witness ==
    \E p \in Procs :
        /\ Done(p, "Terminate")
        /\ loc[p].resp.err = ServiceError
        /\ ErrorsIs(loc[p].result, ServiceError)
        /\ Len(loc[p].result) > 1
        /\ inst.exists
        /\ secret # NoSecret
        /\ LinkedSnapshots(snaps, Target) # {}

\* Terminate has seen the instance gone: the lookup or the delete request said
\* not found, or the wait for the deleted instance ended well
InstanceSeenGone(p) ==
    \/ loc[p].dbAlreadyDeleted
    \/ \E k \in Issued(p, "DeleteDBInstance") : IsDBInstanceNotFound(loc[p].calls[k].err)
    \/ \E k \in Issued(p, "WaitDBInstanceDeleted") : loc[p].calls[k].err = Nil

\* Terminate attempted the secret's deletion, once, forced, under <prefix>/<id>
SecretDeletionAttempted(p) ==
    /\ Cardinality(Issued(p, "DeleteSecret")) = 1
    /\ \A k \in Issued(p, "DeleteSecret") :
          /\ loc[p].calls[k].id = SecretName
          /\ loc[p].calls[k].arg = "ForceDeleteWithoutRecovery"

KindOf(c) == CHOOSE k \in WaitKinds : c.call = "Wait" \o k

\* the latest poll of the wait showed the resource short of the wait's terminal state
NotYetTerminal(kind, polled) ==
    /\ polled.err = Nil
    /\ polled.statuses # <<>>
    /\ \A k \in 1..Len(polled.statuses) :
          IF kind = "DBInstanceDeleted"
          THEN polled.statuses[k] \in {"available", "deleting", "failed"}
          ELSE polled.statuses[k] \in {"creating", "modifying"}

\* the latest poll of the wait showed the resource in a state the wait fails on
TerminalButFailed(kind, polled) ==
    /\ polled.err = Nil
    /\ \E k \in 1..Len(polled.statuses) :
          IF kind = "DBInstanceDeleted"
          THEN polled.statuses[k] \in {"creating", "modifying"}
          ELSE polled.statuses[k] \in {"failed", "deleting"}

(* C15: a wait that uses up its budget while the resource is still short of *)
(* the terminal state ends with the timeout error, which ends the           *)
(* operation with an error wrapping it and no further request; a wait that  *)
(* sees the resource in a terminal-but-failed state ends with a different   *)
(* error, so the two outcomes can be told apart.                            *)
C15_TimeoutDistinctFromFailedState ==
    \A p \in Procs :
        (loc[p].calls # <<>> /\ LastCall(p).call \in WaitCalls /\ LastCall(p).err # Nil) =>
            LET kind == KindOf(LastCall(p))
                timeout == exceededMaxWait(kind)
            IN  /\ loc[p].pc = "done"
                /\ \E msg \in WaitMessages : loc[p].result = Wrap(msg, LastCall(p).err)
                /\ NotYetTerminal(kind, loc[p].polled) =>
                      /\ LastCall(p).err = timeout
                      /\ ErrorsIs(loc[p].result, timeout)
                      /\ ~ErrorsIs(loc[p].result, waiterFailure)
                /\ TerminalButFailed(kind, loc[p].polled) =>
                      /\ LastCall(p).err = waiterFailure
                      /\ ErrorsIs(loc[p].result, waiterFailure)
                      /\ ~ErrorsIs(loc[p].result, timeout)
                /\ timeout # waiterFailure

C15_Witness ==
    \E p \in Procs :
        /\ Done(p, "Restore")
        /\ LastCall(p).call = "WaitDBInstanceAvailable"
        /\ LastCall(p).err = <<"exceeded max wait time for DBInstanceAvailable waiter">>
        /\ Len(loc[p].result) = 2
        /\ inst.exists
        /\ inst.status = "creating"

\* the step completes, for process p, something it was blocked in: a request, a
\* round of a wait or a settle delay
Unblocks(p) == Len(loc'[p].calls) > Len(loc[p].calls)

\* the step ends the operation of process p with the cancellation error
AbortsOnCancel(p) ==
    /\ loc'[p].pc = "done"
    /\ ErrorsIs(loc'[p].result, Canceled)
    /\ \A kind \in WaitKinds : ~ErrorsIs(loc'[p].result, exceededMaxWait(kind))

(* C16: when the caller has cancelled the context while the operation is    *)
(* blocked in a wait poll, in a settle delay or in a service call, the      *)
(* operation ends there, without the rest of the wait or of the delay, and  *)
(* returns a cancellation error that is not the timeout error.              *)
C16_CancellationAbortsBlockedOperation ==
    [][\A p \in Procs :
          (loc[p].ctx = "cancelled" /\ Unblocks(p)) => AbortsOnCancel(p)]_vars

\* the same with the settle delays left out: cancellation aborts every wait and
\* every service call
CancellationAbortsWaitsAndCalls ==
    [][\A p \in Procs :
          (/\ loc[p].ctx = "cancelled"
           /\ Unblocks(p)
           /\ loc'[p].calls[Len(loc'[p].calls)].call # "Sleep") => AbortsOnCancel(p)]_vars

(* C17: isCreatedByCavalier returns true exactly when the instance's tag    *)
(* list has a CREATED_BY_CAVALIER tag whose value parses as boolean true;   *)
(* with the tag missing, false or malformed it returns false, for exactly   *)
(* {CREATED_BY_CAVALIER: "true"} it returns true, and its result is always  *)
(* a boolean, never an error.                                               *)
C17_OwnershipTagDecides ==
    Applied("isCreatedByCavalier") =>
        /\ probe.out[1] \in BOOLEAN
        /\ probe.out[1] <=>
              \E k \in 1..Len(probe.in) :
                  /\ probe.in[k].Key = "CREATED_BY_CAVALIER"
                  /\ probe.in[k].Value \in {"1", "t", "T", "TRUE", "true", "True"}
        /\ probe.in = <<[Key |-> "CREATED_BY_CAVALIER", Value |-> "true"]>> =>
              probe.out[1] = TRUE

C17_Witness ==
    /\ Applied("isCreatedByCavalier")
    /\ probe.in = <<[Key |-> "USE_SNAPSHOT_CREATED_BY_CAVALIER", Value |-> "true"],
                    [Key |-> "CREATED_BY_CAVALIER", Value |-> "tRuE"]>>
    /\ probe.out = <<FALSE>>

\* instance identifiers, among them ones that end in or consist of the suffix
Identifiers == {"test", "test2", "tes", "other", "test-cavalier", "-cavalier", "", "prod"}

(* C18: dbSnapshotName gives the instance identifier followed by            *)
(* "-cavalier" ("test" gives "test-cavalier"), distinct identifiers never   *)
(* get the same snapshot name, and the snapshot's creation, the wait for    *)
(* the available snapshot, the snapshot lookup and the snapshot's deletion  *)
(* all use that one name for the target identifier.                         *)
C18_SnapshotNameDeterministicInjective ==
    /\ dbSnapshotName("test") = "test-cavalier"
    /\ \A a \in Identifiers : \A b \in Identifiers :
          dbSnapshotName(a) = dbSnapshotName(b) => a = b
    /\ \A p \in Procs : \A k \in 1..Len(loc[p].calls) :
          LET c == loc[p].calls[k]
          IN  /\ c.call = "CreateDBSnapshot" => c.arg = "test-cavalier"
              /\ c.call \in {"WaitDBSnapshotAvailable", "DescribeDBSnapshots", "DeleteDBSnapshot"}
                    => c.id = "test-cavalier"

C18_Witness ==
    \E p \in Procs :
        /\ loc[p].op = "Restore"
        /\ \E k \in Issued(p, "CreateDBSnapshot") :
              /\ k + 2 <= Len(loc[p].calls)
              /\ loc[p].calls[k].err = Nil
              /\ loc[p].calls[k + 1].call = "WaitDBSnapshotAvailable"
              /\ loc[p].calls[k + 1].err = Nil
              /\ loc[p].calls[k + 2].call = "DescribeDBSnapshots"
              /\ loc[p].calls[k + 2].err = Nil
        /\ \E k \in 1..Len(snaps) : snaps[k].DBSnapshotIdentifier = "test-cavalier"
        /\ loc[p].snapshotARN = "arn:test-cavalier"

\* the number of characters of the password that are in the set
CountIn(password, set) ==
    BagCardinality([c \in BagToSet(password) \cap set |-> CopiesIn(c, password)])

(* C19: every password generateMasterUserPassword returns has length 41,    *)
(* holds at least 10 digits and at least 10 symbols, its symbols being of   *)
(* masterUserPasswordSymbols, and holds no character that is not a digit,   *)
(* a letter or a symbol of that list.                                       *)
C19_GeneratedPasswordShape ==
    (Applied("generateMasterUserPassword") /\ probe.out[1].err = Nil) =>
        LET password == probe.out[1].password
            digits == {"0", "1", "2", "3", "4", "5", "6", "7", "8", "9"}
            letters == Range(LowerLetters) \cup Range(UpperLetters)
            symbols == BagToSet(password) \ (digits \cup letters)
        IN  /\ BagCardinality(password) = 41
            /\ CountIn(password, digits) >= 10
            /\ CountIn(password, symbols) >= 10
            /\ symbols \subseteq Range(masterUserPasswordSymbols)
            /\ BagToSet(password) \subseteq
                  digits \cup letters \cup Range(masterUserPasswordSymbols)

C19_Witness ==
    /\ Applied("generateMasterUserPassword")
    /\ probe.out[1].err = Nil
    /\ BagCardinality(probe.out[1].password) = 41
    /\ {"a", "Z", "0", "9", "~", "."} \subseteq BagToSet(probe.out[1].password)

\* HandleRestore has been invoked in process p
RestoreInvoked(p) == loc[p].op = "Restore" /\ loc[p].pc # "exited"

(* C20: the command line invokes HandleRestore only with exactly one of the *)
(* snapshot ARN and the source instance identifier set (with both or with   *)
(* neither the command exits before the core runs), and cfg.takeSnapshot is *)
(* then true exactly when the source instance identifier was given.         *)
C20_RestoreGetsExactlyOneSource ==
    \A p \in Procs :
        /\ RestoreInvoked(p) =>
              /\ (loc[p].SnapshotARN # "") # (loc[p].SourceDBInstanceIdentifier # "")
              /\ loc[p].takeSnapshot <=> loc[p].SourceDBInstanceIdentifier # ""
        /\ (loc[p].op = "Restore" /\ loc[p].pc = "exited") =>
              /\ (loc[p].SnapshotARN # "") = (loc[p].SourceDBInstanceIdentifier # "")
              /\ loc[p].calls = <<>>
              /\ loc[p].result # Nil
        /\ loc[p].takeSnapshot => loc[p].op = "Restore"

C20_Witness ==
    \E p \in Procs :
        /\ RestoreInvoked(p)
        /\ loc[p].SnapshotARN = "arn:given"
        /\ loc[p].SourceDBInstanceIdentifier = ""
        /\ ~loc[p].takeSnapshot
        /\ \E k \in Issued(p, "RestoreDBInstanceFromDBSnapshot") :
              /\ loc[p].calls[k].arg = "arn:given"
              /\ loc[p].calls[k].err = Nil
        /\ Issued(p, "CreateDBSnapshot") = {}

----------------------------------------------------------------------------
\* the requests of process p from its ownership lookup on: the part of the
\* invocation that HandleModify runs
ModifyCalls(p) ==
    LET d == Issued(p, "DescribeDBInstances")
    IN  IF d = {} THEN <<>>
        ELSE SubSeq(loc[p].calls, CHOOSE k \in d : \A j \in d : k <= j, Len(loc[p].calls))

Names(calls) == [k \in 1..Len(calls) |-> calls[k].call]

\* Modify has returned success in process p, on its own or as the end of Restore
ModifySucceeded(p) ==
    /\ loc[p].pc = "done"
    /\ loc[p].result = Nil
    /\ loc[p].op \in {"Modify", "Restore"}

(* C21: a successful HandleModify has performed, in this order and each at  *)
(* most once: the ownership lookup, the wait for the available instance,    *)
(* the password generation, the creation of the secret or (when it exists)  *)
(* the reading of the stored one, ModifyDBInstance with backup retention    *)
(* period 0, the master password and apply-immediately, the settle delay,   *)
(* and the second wait for the available instance, which succeeded.         *)
C21_ModifyStepsInOrder ==
    \A p \in Procs :
        ModifySucceeded(p) =>
            LET c == ModifyCalls(p)
                reused == c[3].err # Nil
                m == IF reused THEN 5 ELSE 4
            IN  /\ Names(c) = IF reused
                               THEN <<"DescribeDBInstances", "WaitDBInstanceAvailable",
                                      "CreateSecret", "GetSecretValue", "ModifyDBInstance",
                                      "Sleep", "WaitDBInstanceAvailable">>
                               ELSE <<"DescribeDBInstances", "WaitDBInstanceAvailable",
                                      "CreateSecret", "ModifyDBInstance", "Sleep",
                                      "WaitDBInstanceAvailable">>
                /\ \A k \in 1..Len(c) : k # 3 => c[k].err = Nil
                /\ reused => ErrorsAs(c[3].err, "ResourceExistsException")
                /\ loc[p].generated \in Passwords
                /\ c[3].arg = loc[p].generated
                /\ c[m].id = Target
                /\ c[m].arg = (IF reused THEN c[4].arg ELSE loc[p].generated)
                /\ loc[p].input = [DBInstanceIdentifier |-> Target, ApplyImmediately |-> TRUE,
                                   BackupRetentionPeriod |-> 0,
                                   MasterUserPassword |-> c[m].arg]

C21_Witness ==
    \E p \in Procs :
        /\ ModifySucceeded(p)
        /\ loc[p].op = "Modify"
        /\ Issued(p, "GetSecretValue") # {}
        /\ Cardinality(Issued(p, "WaitDBInstanceAvailable")) = 2
        /\ loc[p].input.BackupRetentionPeriod = 0
        /\ inst.pw = loc[p].input.MasterUserPassword

----------------------------------------------------------------------------
\* the snapshot step or the snapshot lookup of process p has failed
SnapshotStepFailed(p) ==
    \/ \E k \in Issued(p, "CreateDBSnapshot") \cup Issued(p, "WaitDBSnapshotAvailable") :
          loc[p].calls[k].err # Nil
    \/ /\ Issued(p, "DescribeDBSnapshots") # {}
       /\ DescribeDBSnapshotByIdentifier(loc[p].pages, Target).err # Nil

\* the snapshot is one of those the listing returned
Listed(pages, dbs) ==
    \E i \in 1..Len(pages) : \E k \in 1..Len(pages[i].DBSnapshots) : pages[i].DBSnapshots[k] = dbs

(* C22: HandleRestore with cfg.takeSnapshot runs HandleSnapshot first, then *)
(* looks up the snapshot named dbSnapshotName(target) and issues the        *)
(* restore with the ARN of the snapshot found, never cfg.SnapshotARN;       *)
(* without cfg.takeSnapshot it issues the restore with cfg.SnapshotARN and  *)
(* makes no CreateDBSnapshot or DescribeDBSnapshots call; when the snapshot *)
(* step or the lookup fails, no restore request is issued.                  *)
C22_RestoreSourceSnapshot ==
    \A p \in Procs :
        loc[p].op = "Restore" =>
            /\ \A k \in Issued(p, "RestoreDBInstanceFromDBSnapshot") :
                  IF loc[p].takeSnapshot
                  THEN /\ k = 4
                       /\ Names(SubSeq(loc[p].calls, 1, 3)) =
                              <<"CreateDBSnapshot", "WaitDBSnapshotAvailable",
                                "DescribeDBSnapshots">>
                       /\ \A j \in 1..3 : loc[p].calls[j].err = Nil
                       /\ loc[p].calls[3].id = dbSnapshotName(Target)
                       /\ Listed(loc[p].pages, loc[p].dbs)
                       /\ loc[p].dbs.DBSnapshotIdentifier = dbSnapshotName(Target)
                       /\ loc[p].calls[k].arg = loc[p].dbs.DBSnapshotArn
                       /\ loc[p].calls[k].arg # loc[p].SnapshotARN
                  ELSE /\ k = 1
                       /\ loc[p].calls[k].arg = loc[p].SnapshotARN
                       /\ loc[p].SnapshotARN = GivenARN
            /\ ~loc[p].takeSnapshot =>
                  Issued(p, "CreateDBSnapshot") \cup Issued(p, "DescribeDBSnapshots") = {}
            /\ SnapshotStepFailed(p) =>
                  /\ Issued(p, "RestoreDBInstanceFromDBSnapshot") = {}
                  /\ loc[p].pc = "done"
                  /\ loc[p].result # Nil

C22_Witness ==
    \E p \in Procs :
        /\ loc[p].op = "Restore"
        /\ loc[p].takeSnapshot
        /\ \E k \in Issued(p, "RestoreDBInstanceFromDBSnapshot") :
              /\ loc[p].calls[k].err = Nil
              /\ loc[p].calls[k].arg = "arn:test-cavalier"
        /\ inst.exists
        /\ Len(loc[p].pages) = 2

----------------------------------------------------------------------------
\* the restore request of process p, or the wait that follows it, has failed
RestoreStepFailed(p) ==
    \E k \in Issued(p, "RestoreDBInstanceFromDBSnapshot") :
        \/ loc[p].calls[k].err # Nil
        \/ /\ k < Len(loc[p].calls)
           /\ loc[p].calls[k + 1].call = "WaitDBInstanceAvailable"
           /\ loc[p].calls[k + 1].err # Nil

(* C23: in HandleRestore, Modify is invoked (its ownership lookup is made)  *)
(* only directly after a restore request that succeeded and a wait for the  *)
(* available instance that succeeded; when the restore request or that wait *)
(* fails, Restore returns an error, Modify is not invoked and no secret is  *)
(* created; Restore returns success only when Modify has run to its end: a  *)
(* successful ModifyDBInstance followed by a successful wait.               *)
C23_ModifyOnlyAfterRestoreAndWait ==
    \A p \in Procs :
        loc[p].op = "Restore" =>
            /\ \A k \in Issued(p, "DescribeDBInstances") :
                  /\ k >= 3
                  /\ loc[p].calls[k - 2].call = "RestoreDBInstanceFromDBSnapshot"
                  /\ loc[p].calls[k - 2].err = Nil
                  /\ loc[p].calls[k - 2].id = Target
                  /\ loc[p].calls[k - 1].call = "WaitDBInstanceAvailable"
                  /\ loc[p].calls[k - 1].err = Nil
                  /\ loc[p].calls[k].id = Target
            /\ RestoreStepFailed(p) =>
                  /\ loc[p].pc = "done"
                  /\ loc[p].result # Nil
                  /\ Issued(p, "DescribeDBInstances") = {}
                  /\ Issued(p, "CreateSecret") = {}
            /\ (loc[p].pc = "done" /\ loc[p].result = Nil) =>
                  \E m \in Issued(p, "ModifyDBInstance") :
                      /\ loc[p].calls[m].err = Nil
                      /\ \E d \in Issued(p, "DescribeDBInstances") : d < m
                      /\ Len(loc[p].calls) = m + 2
                      /\ LastCall(p).call = "WaitDBInstanceAvailable"
                      /\ LastCall(p).err = Nil

C23_Witness ==
    \E p \in Procs :
        /\ Done(p, "Restore")
        /\ loc[p].result = Nil
        /\ ~loc[p].inst0.exists
        /\ inst.exists
        /\ inst.pw = loc[p].mupw
        /\ secret = loc[p].mupw

----------------------------------------------------------------------------
(* C24: HandleSnapshot requests a snapshot of cfg.SourceDBInstanceIdentifier *)
(* named dbSnapshotName(cfg.DBInstanceIdentifier) and tagged                *)
(* CAVALIER_DB_INSTANCE_IDENTIFIER=<target>, then waits for the snapshot of *)
(* that name to be available, and returns success only after the wait       *)
(* succeeded; when the create request fails it returns the error, wrapped,  *)
(* without waiting.                                                         *)
C24_SnapshotCreateThenWait ==
    \A p \in Procs :
        /\ \A k \in Issued(p, "CreateDBSnapshot") :
              /\ k = 1
              /\ loc[p].calls[k].id = loc[p].SourceDBInstanceIdentifier
              /\ loc[p].calls[k].arg = dbSnapshotName(Target)
              /\ loc[p].calls[k].tags = <<Tag("CAVALIER_DB_INSTANCE_IDENTIFIER", Target)>>
              /\ loc[p].calls[k].err # Nil =>
                    /\ loc[p].pc = "done"
                    /\ loc[p].result = Wrap("creating the DB snapshot", loc[p].calls[k].err)
                    /\ Len(loc[p].calls) = 1
        /\ \A k \in Issued(p, "WaitDBSnapshotAvailable") :
              /\ k = 2
              /\ loc[p].calls[1].call = "CreateDBSnapshot"
              /\ loc[p].calls[1].err = Nil
              /\ loc[p].calls[k].id = dbSnapshotName(Target)
        /\ (Done(p, "Snapshot") /\ loc[p].result = Nil) =>
              /\ CallNames(p) = <<"CreateDBSnapshot", "WaitDBSnapshotAvailable">>
              /\ AllSucceeded(p)
              /\ loc[p].polled.err = Nil
              /\ loc[p].polled.statuses # <<>>
              /\ \A k \in 1..Len(loc[p].polled.statuses) :
                    loc[p].polled.statuses[k] = "available"

C24_Witness ==
    \E p \in Procs :
        /\ Done(p, "Snapshot")
        /\ loc[p].result = Nil
        /\ loc[p].calls[1].id = Source
        /\ LinkedSnapshots(loc[p].snaps0, Target) = {}
        /\ \E k \in LinkedSnapshots(snaps, Target) : snaps[k].Status = "available"

----------------------------------------------------------------------------
\* the error of request c is one the handler of process p goes on after
Tolerated(p, c) ==
    \/ loc[p].op = "Terminate" /\ c.call = "DescribeDBInstances" /\ IsDBInstanceNotFound(c.err)
    \/ /\ c.call = "DeleteDBInstance"
       /\ (IsDBInstanceNotFound(c.err) \/ ErrorsAs(c.err, "InvalidDBInstanceStateFault"))
    \/ loc[p].op = "Terminate" /\ c.call = "DescribeDBSnapshots" /\ IsDBSnapshotNotFound(c.err)
    \/ c.call = "CreateSecret" /\ ErrorsAs(c.err, "ResourceExistsException")

\* the handler of process p is between its start and its return
Running(p) == loc[p].pc \notin {"idle", "done", "exited", "panicked"}

\* process p has returned an error right after its latest request named name
EndedAt(p, name) ==
    /\ loc[p].pc = "done"
    /\ loc[p].result # Nil
    /\ LastCall(p).call = name

\* the steps whose error is not the error of a request: the ownership lookup,
\* the search of the listed snapshots, the password generator
StepFailed(p, name) ==
    CASE name = "DescribeDBInstances" ->
            LET err == Cavalier_isCreatedByCavalier(loc[p].resp).err
            IN  /\ Issued(p, name) # {}
                /\ \/ err # Nil /\ ~(loc[p].op = "Terminate" /\ IsDBInstanceNotFound(err))
                   \/ err = Nil /\ ~Cavalier_isCreatedByCavalier(loc[p].resp).ok
      [] name = "DescribeDBSnapshots" ->
            LET err == DescribeDBSnapshotByIdentifier(loc[p].pages, Target).err
            IN  /\ Issued(p, name) # {}
                /\ err # Nil
                /\ ~(loc[p].op = "Terminate" /\ IsDBSnapshotNotFound(err))
      [] OTHER -> ErrorsIs(loc[p].result, <<"generator error">>)

\* a step of a running handler other than Terminate leaves in place what the
\* services hold: the instance, the secret and every snapshot
NothingRemoved ==
    \A p \in Procs :
        (Running(p) /\ loc[p].op # "Terminate" /\ loc'[p] # loc[p]) =>
            /\ inst.exists => inst'.exists
            /\ secret # NoSecret => secret' = secret
            /\ Len(snaps') >= Len(snaps)
            /\ \A k \in 1..Len(snaps) : snaps'[k] = snaps[k]

\* the first error that is not tolerated is the end of the invocation
FirstErrorEnds ==
    \A p \in Procs :
        /\ \A k \in 1..Len(loc[p].calls) :
              (loc[p].calls[k].err # Nil /\ ~Tolerated(p, loc[p].calls[k])) =>
                  /\ k = Len(loc[p].calls)
                  /\ loc[p].pc = "done"
                  /\ loc[p].result # Nil
                  /\ ErrorsIs(loc[p].result, loc[p].calls[k].err)
        /\ StepFailed(p, "DescribeDBInstances") => EndedAt(p, "DescribeDBInstances")
        /\ StepFailed(p, "DescribeDBSnapshots") => EndedAt(p, "DescribeDBSnapshots")
        /\ StepFailed(p, "generator") => EndedAt(p, "WaitDBInstanceAvailable")
        /\ loc[p].op \in {"Snapshot", "Restore", "Modify"} =>
              \A n \in {"DeleteDBInstance", "DeleteDBSnapshot", "DeleteSecret"} :
                  Issued(p, n) = {}

(* C25: in every operation the first step that returns an error that is not *)
(* tolerated ends the operation with an error: it is the last step of the   *)
(* invocation; and no compensating call is made: Snapshot, Restore and      *)
(* Modify never issue DeleteDBInstance, DeleteDBSnapshot or DeleteSecret,   *)
(* and none of their steps removes the instance, the secret or a snapshot.  *)
C25_FirstErrorEndsWithoutRollback == [](FirstErrorEnds) /\ [][NothingRemoved]_vars

C25_Witness ==
    \E p \in Procs :
        /\ Done(p, "Restore")
        /\ loc[p].result # Nil
        /\ LastCall(p).call = "ModifyDBInstance"
        /\ LastCall(p).err # Nil
        /\ ~loc[p].inst0.exists
        /\ inst.exists
        /\ secret = loc[p].generated
        /\ \E k \in Issued(p, "CreateSecret") : loc[p].calls[k].err = Nil

----------------------------------------------------------------------------
\* the request that follows request k of process p is named name; when k is the
\* latest request, the handler is at position pc
ThenComes(p, k, name, pc) ==
    IF k < Len(loc[p].calls) THEN loc[p].calls[k + 1].call = name ELSE loc[p].pc = pc

\* request k of process p ended the invocation with its error, wrapped in msg
Fatal(p, k, msg) ==
    /\ k = Len(loc[p].calls)
    /\ loc[p].pc = "done"
    /\ loc[p].result = Wrap(msg, loc[p].calls[k].err)

\* the delete request answered invalid-state is followed by the delay and the wait
InvalidStateGoesOnToWait(p, k) ==
    ErrorsAs(loc[p].calls[k].err, "InvalidDBInstanceStateFault") =>
        /\ ThenComes(p, k, "Sleep", "T_sleep")
        /\ k + 1 <= Len(loc[p].calls) => ThenComes(p, k + 1, "WaitDBInstanceDeleted", "T_wait")

(* C26 as stated: in HandleTerminate on an owned instance a DeleteDBInstance *)
(* answered with an invalid-state fault is followed by the settle delay and *)
(* the wait for the deleted instance, and every other error of              *)
(* DeleteDBInstance ends Terminate with an error before any wait, secret    *)
(* deletion or snapshot cleanup.                                            *)
C26_OnlyInvalidStateTolerated ==
    \A p \in Procs : \A k \in Issued(p, "DeleteDBInstance") :
        /\ InvalidStateGoesOnToWait(p, k)
        /\ (/\ loc[p].calls[k].err # Nil
            /\ ~ErrorsAs(loc[p].calls[k].err, "InvalidDBInstanceStateFault")) =>
              Fatal(p, k, "deleting the DB instance")

(* C26, amended: a DeleteDBInstance answered with an invalid-state fault is *)
(* followed by the settle delay and the wait for the deleted instance; one  *)
(* answered with an instance-not-found fault is taken for an instance       *)
(* already deleted: no delay, no wait, and Terminate goes on with the       *)
(* deletion of the secret; every other error ends Terminate with that       *)
(* error, wrapped, before any wait, secret deletion or snapshot cleanup.    *)
C26_InvalidStateAndNotFoundTolerated ==
    \A p \in Procs : \A k \in Issued(p, "DeleteDBInstance") :
        /\ FoundOwned(p)
        /\ InvalidStateGoesOnToWait(p, k)
        /\ IsDBInstanceNotFound(loc[p].calls[k].err) =>
              /\ ThenComes(p, k, "DeleteSecret", "T_secret")
              /\ Issued(p, "Sleep") \cup Issued(p, "WaitDBInstanceDeleted") = {}
        /\ (/\ loc[p].calls[k].err # Nil
            /\ ~ErrorsAs(loc[p].calls[k].err, "InvalidDBInstanceStateFault")
            /\ ~IsDBInstanceNotFound(loc[p].calls[k].err)) =>
              Fatal(p, k, "deleting the DB instance")

C26_Witness ==
    \E p \in Procs : \E k \in Issued(p, "DeleteDBInstance") :
        /\ Done(p, "Terminate")
        /\ ErrorsAs(loc[p].calls[k].err, "InvalidDBInstanceStateFault")
        /\ loc[p].calls[k + 2].call = "WaitDBInstanceDeleted"
        /\ loc[p].calls[k + 2].err = Nil
        /\ Issued(p, "DeleteSecret") # {}
        /\ ~inst.exists

----------------------------------------------------------------------------
\* the error is, or wraps, an API error, and the outermost one has the code
IsAPIErrorWithCode(err, code) ==
    \E i \in 1..Len(err) :
        /\ err[i] = code
        /\ \A j \in 1..(i - 1) : err[j] \notin APIErrorCodes

----------------------------------------------------------------------------
\* the service calls that create, change or delete a resource
MutatingCalls ==
    {"CreateDBSnapshot", "RestoreDBInstanceFromDBSnapshot", "ModifyDBInstance",
     "DeleteDBInstance", "DeleteDBSnapshot", "CreateSecret", "DeleteSecret"}

(* C28: within one invocation each mutating service call (CreateDBSnapshot,  *)
(* RestoreDBInstanceFromDBSnapshot, ModifyDBInstance, DeleteDBInstance,     *)
(* DeleteDBSnapshot, CreateSecret, DeleteSecret) is issued at most once,    *)
(* and a service call that failed is never issued again: only the polls of  *)
(* a wait are repeated.                                                     *)
C28_MutatingCallsAtMostOnce ==
    \A p \in Procs :
        /\ \A n \in MutatingCalls : Cardinality(Issued(p, n)) <= 1
        /\ \A k \in 1..Len(loc[p].calls) :
              loc[p].calls[k].err # Nil =>
                  \A j \in (k + 1)..Len(loc[p].calls) :
                      loc[p].calls[j].call # loc[p].calls[k].call
        /\ loc[p].polls > 0 => loc[p].pc \in {"T_wait", "M_wait1", "M_wait2", "S_wait", "R_wait"}

C28_Witness ==
    \E p \in Procs :
        /\ loc[p].op = "Restore"
        /\ loc[p].pc = "M_wait2"
        /\ loc[p].polls > 0
        /\ \E k \in Issued(p, "CreateSecret") :
              ErrorsAs(loc[p].calls[k].err, "ResourceExistsException")
        /\ \A n \in MutatingCalls \ {"DeleteDBInstance", "DeleteDBSnapshot", "DeleteSecret"} :
              Cardinality(Issued(p, n)) = 1

----------------------------------------------------------------------------
(* C29: every wait is a bounded poll: it ends with success, with a failure  *)
(* or, once its budget of polls is used up, with the timeout error; so      *)
(* every started Snapshot, Restore, Modify and Terminate eventually returns *)
(* (success or error), whatever the services answer.                        *)
C29_EveryOperationReturns ==
    \A p \in Procs :
        /\ [](loc[p].polls < MaxPolls)
        /\ (Running(p) /\ loc[p].op \in {"Snapshot", "Restore", "Modify", "Terminate"})
              ~> (loc[p].pc = "done")

\* every started operation comes to an end: it returns, or it panics
EveryOperationReturnsOrPanics ==
    \A p \in Procs :
        (Running(p) /\ loc[p].op \in {"Snapshot", "Restore", "Modify", "Terminate"})
            ~> (loc[p].pc \in {"done", "panicked"})

----------------------------------------------------------------------------
\* the ownership lookup of process p was answered, without an error, with no
\* instance or with more than one
FoundNoneOrSeveral(p) ==
    /\ Issued(p, "DescribeDBInstances") # {}
    /\ loc[p].resp.err = Nil
    /\ Len(loc[p].resp.DBInstances) # 1

(* C30: when the ownership lookup of Modify or Terminate is answered with   *)
(* zero instances or with more than one, the operation returns an error     *)
(* that is neither not-found nor the ownership refusal, the instance is     *)
(* taken neither for deleted nor for owned, and the lookup is the last      *)
(* request: no mutating or destructive call is issued.                      *)
C30_LookupMultiplicityIsAnError ==
    \A p \in Procs :
        FoundNoneOrSeveral(p) =>
            /\ loc[p].pc = "done"
            /\ loc[p].result = <<"zero DB instance or more than one DB instances returned">>
            /\ ~IsDBInstanceNotFound(loc[p].result)
            /\ loc[p].result # notCreatedError
            /\ ~loc[p].dbAlreadyDeleted
            /\ ~loc[p].ok
            /\ LastCall(p).call = "DescribeDBInstances"
            /\ loc[p].op \in {"Modify", "Terminate"} =>
                  /\ Len(loc[p].calls) = 1
                  /\ \A n \in MutatingCalls : Issued(p, n) = {}

C30_Witness ==
    \E p \in Procs :
        /\ Done(p, "Terminate")
        /\ FoundNoneOrSeveral(p)
        /\ Len(loc[p].resp.DBInstances) = 2
        /\ isCreatedByCavalier(loc[p].resp.DBInstances[1])
        /\ inst = loc[p].inst0
        /\ inst.exists
        /\ secret # NoSecret

----------------------------------------------------------------------------
(* C31: isSnapshotCreatedByCavalier(instanceID, snapshot) is true exactly   *)
(* when the snapshot's tag list holds a CAVALIER_DB_INSTANCE_IDENTIFIER tag *)
(* whose value equals instanceID; without the tag, with another value, or   *)
(* with a prefix or a suffix of the identifier as the value, it is false.   *)
C31_LinkTagValueDecides ==
    Applied("isSnapshotCreatedByCavalier") =>
        LET id == probe.in.dbi
            tags == probe.in.TagList
            values == {tags[k].Value : k \in {j \in 1..Len(tags) :
                                                 tags[j].Key = "CAVALIER_DB_INSTANCE_IDENTIFIER"}}
        IN  /\ probe.out[1] \in BOOLEAN
            /\ probe.out[1] <=> id \in values
            /\ values = {} => ~probe.out[1]
            /\ (id = "test" /\ values \subseteq {"tes", "est", "test2", "Test", "test-cavalier",
                                                  "other", ""}) => ~probe.out[1]

C31_Witness ==
    /\ Applied("isSnapshotCreatedByCavalier")
    /\ probe.in = [dbi |-> "test",
                   TagList |-> <<Tag("CAVALIER_DB_INSTANCE_IDENTIFIER", "tes"),
                                 Tag("CAVALIER_DB_INSTANCE_IDENTIFIER", "test2")>>]
    /\ probe.out = <<FALSE>>

----------------------------------------------------------------------------
(* C32: no operation panics on a service answer: for every answer (a typed  *)
(* fault, another error, a successful answer whose instance record has no   *)
(* identifier or whose restore output has no instance record) Snapshot,     *)
(* Restore, Modify and Terminate return a success or an error value.        *)
C32_NoOperationPanics ==
    \A p \in Procs : loc[p].pc # "panicked"

----------------------------------------------------------------------------
\* the invocation before the one of process p was a successful op
After(p, op) == loc[p].prev.op = op /\ loc[p].prev.ok

\* every request of the invocation was answered, and nothing but the truth: no
\* error but the not-found fault for an instance or a snapshot that is absent
AnsweredTruthfully(p) ==
    /\ loc[p].ctx = "live"
    /\ \A k \in 1..Len(loc[p].calls) :
          loc[p].calls[k].err \in {Nil, DBInstanceNotFoundFault, DBSnapshotNotFoundFault}

\* Terminate has returned in process p, after a successful Terminate, with the
\* instance and the snapshot absent and its lookup answered "not found"
SecondTerminate(p) ==
    /\ Done(p, "Terminate")
    /\ After(p, "Terminate")
    /\ ~loc[p].inst0.exists
    /\ loc[p].calls # <<>>
    /\ loc[p].calls[1].call = "DescribeDBInstances"
    /\ IsDBInstanceNotFound(loc[p].calls[1].err)
    /\ SelectSnapshots(loc[p].snaps0, dbSnapshotName(Target), "") = <<>>
    /\ AnsweredTruthfully(p)

(* C33: after a HandleTerminate that returned success, a second             *)
(* HandleTerminate for the same identifier (instance, secret and snapshot   *)
(* now absent), with every request answered, also returns success and       *)
(* issues no DeleteDBInstance and no DeleteDBSnapshot.                      *)
C33_TerminateTwiceSucceeds ==
    \A p \in Procs :
        SecondTerminate(p) =>
            /\ loc[p].result = Nil
            /\ Issued(p, "DeleteDBInstance") = {}
            /\ Issued(p, "DeleteDBSnapshot") = {}

\* the second Terminate succeeds when the listing of the absent snapshot is
\* answered with the snapshot-not-found fault, and issues no delete in any case
SecondTerminateOnNotFoundFault ==
    \A p \in Procs :
        SecondTerminate(p) =>
            /\ Issued(p, "DeleteDBInstance") = {}
            /\ Issued(p, "DeleteDBSnapshot") = {}
            /\ loc[p].result # Nil =>
                  loc[p].result = <<"no corresponding the DB snapshot">>
            /\ IsDBSnapshotNotFound(LastCall(p).err) => loc[p].result = Nil

\* request k of process p carries a password the invocation knew to be stored:
\* an earlier CreateSecret of it succeeded, or an earlier GetSecretValue returned it
KnownStored(p, k) ==
    \E j \in 1..(k - 1) :
        /\ loc[p].calls[j].call \in {"CreateSecret", "GetSecretValue"}
        /\ loc[p].calls[j].err = Nil
        /\ loc[p].calls[j].id = SecretName
        /\ loc[p].calls[j].arg = loc[p].calls[k].arg

(* C34: a ModifyDBInstance request carrying password p is issued only after *)
(* p is known to be stored in the secret (CreateSecret succeeded with p, or *)
(* GetSecretValue returned p) and p is then the stored value; after a       *)
(* successful Modify the password of the instance equals the stored secret  *)
(* value; no password is applied to the instance without being stored.      *)
C34_PasswordStoredBeforeApplied ==
    /\ [](\A p \in Procs :
            /\ \A k \in Issued(p, "ModifyDBInstance") :
                  /\ KnownStored(p, k)
                  /\ loc[p].calls[k].arg = secret
                  /\ loc[p].calls[k].id = Target
            /\ (Done(p, "Modify") /\ loc[p].result = Nil) =>
                  /\ inst.exists
                  /\ secret # NoSecret
                  /\ inst.pw = secret)
    /\ [][(inst.exists /\ inst'.exists /\ inst'.pw # inst.pw) =>
            (secret' = secret /\ inst'.pw = secret)]_vars

\* both ways of knowing: a Modify that stored the password it generated, then a
\* Modify that read it back, each having applied it
C34_Witness ==
    \E p \in Procs :
        /\ Done(p, "Modify")
        /\ loc[p].result = Nil
        /\ After(p, "Modify")
        /\ loc[p].inst0.pw = "pwA"
        /\ loc[p].generated = "pwB"
        /\ \E k \in Issued(p, "ModifyDBInstance") :
              /\ loc[p].calls[k - 1].call = "GetSecretValue"
              /\ loc[p].calls[k].arg = "pwA"
        /\ inst.pw = "pwA"
        /\ secret = "pwA"

\* request j of process p showed the instance to be absent: a lookup or a delete
\* request answered "not found", or a wait for the deleted instance that ended well
ObservedAbsent(p, j) ==
    LET c == loc[p].calls[j]
    IN  \/ c.call \in {"DescribeDBInstances", "DeleteDBInstance"} /\ IsDBInstanceNotFound(c.err)
        \/ c.call = "WaitDBInstanceDeleted" /\ c.err = Nil

\* deleteDBInstance returned an error to Terminate: the delete request failed
\* with an error it does not go on after, or the wait failed or timed out
DeleteStepFailed(p) ==
    \/ \E k \in Issued(p, "DeleteDBInstance") :
          loc[p].calls[k].err # Nil /\ ~Tolerated(p, loc[p].calls[k])
    \/ \E k \in Issued(p, "WaitDBInstanceDeleted") : loc[p].calls[k].err # Nil

(* C35: in HandleTerminate, DeleteSecret and DeleteDBSnapshot are issued    *)
(* only after a request of the same invocation showed the instance absent   *)
(* (the lookup or DeleteDBInstance answered instance-not-found, or the wait  *)
(* for the deleted instance succeeded), and the secret and the snapshots    *)
(* change only then, with the instance gone; when the delete request or the *)
(* wait fails or times out, Terminate returns the error and has issued      *)
(* neither request, so the secret and the snapshot are left untouched.      *)
C35_CleanupOnlyAfterInstanceGone ==
    /\ [](\A p \in Procs : loc[p].op = "Terminate" =>
            /\ \A k \in Issued(p, "DeleteSecret") \cup Issued(p, "DeleteDBSnapshot") :
                  \E j \in 1..(k - 1) : ObservedAbsent(p, j)
            /\ DeleteStepFailed(p) =>
                  /\ loc[p].pc = "done"
                  /\ loc[p].result # Nil
                  /\ Issued(p, "DeleteSecret") = {}
                  /\ Issued(p, "DescribeDBSnapshots") = {}
                  /\ Issued(p, "DeleteDBSnapshot") = {}
                  /\ Removed(loc[p].snaps0, snaps) = {})
    /\ [][\A p \in Procs :
            (loc[p].op = "Terminate" /\ (secret' # secret \/ Removed(snaps, snaps') # {})) =>
                /\ InstanceSeenGone(p)
                /\ ~inst.exists
                /\ ~DeleteStepFailed(p)']_vars

\* a Terminate that found the owned instance, deleted it, saw the wait end well
\* and only then removed the secret and the linked snapshot
C35_Witness ==
    \E p \in Procs :
        /\ Done(p, "Terminate")
        /\ loc[p].result = Nil
        /\ loc[p].inst0.exists
        /\ \E k \in Issued(p, "WaitDBInstanceDeleted") :
              /\ loc[p].calls[k].err = Nil
              /\ \A j \in Issued(p, "DeleteSecret") \cup Issued(p, "DeleteDBSnapshot") : k < j
        /\ Issued(p, "DeleteSecret") # {}
        /\ Issued(p, "DeleteDBSnapshot") # {}
        /\ LinkedSnapshots(loc[p].snaps0, Target) # {}
        /\ LinkedSnapshots(snaps, Target) = {}
        /\ secret = NoSecret
        /\ ~inst.exists

\* the requests that create, change or destroy a DB instance
InstanceRequests ==
    {"RestoreDBInstanceFromDBSnapshot", "ModifyDBInstance", "DeleteDBInstance"}

(* C36: the source instance named by cfg.SourceDBInstanceIdentifier is      *)
(* never changed or destroyed: in all four operations its identifier is     *)
(* carried by CreateDBSnapshot requests only, as the instance the snapshot  *)
(* is taken of, and every RestoreDBInstanceFromDBSnapshot, ModifyDBInstance *)
(* and DeleteDBInstance request names the target cfg.DBInstanceIdentifier.  *)
C36_SourceInstanceOnlyRead ==
    \A p \in Procs : \A k \in 1..Len(loc[p].calls) :
        LET c == loc[p].calls[k]
        IN  /\ c.call \in InstanceRequests => c.id = Target /\ c.id # Source
            /\ c.call = "CreateDBSnapshot" =>
                  /\ c.id = loc[p].SourceDBInstanceIdentifier
                  /\ c.id = Source
                  /\ c.arg = dbSnapshotName(Target)
            /\ (c.id = Source \/ c.arg = Source) => c.call = "CreateDBSnapshot"

\* a successful Restore that took its snapshot of the source, then restored and
\* modified the target
C36_Witness ==
    \E p \in Procs :
        /\ Done(p, "Restore")
        /\ loc[p].result = Nil
        /\ \E k \in Issued(p, "CreateDBSnapshot") :
              loc[p].calls[k].err = Nil /\ loc[p].calls[k].id = Source
        /\ \E k \in Issued(p, "RestoreDBInstanceFromDBSnapshot") :
              loc[p].calls[k].err = Nil /\ loc[p].calls[k].id = Target
        /\ \E k \in Issued(p, "ModifyDBInstance") :
              loc[p].calls[k].err = Nil /\ loc[p].calls[k].id = Target
        /\ ~loc[p].inst0.exists
        /\ inst.exists

\* the requests that name the secret, and those that name the snapshot
SecretRequests == {"CreateSecret", "GetSecretValue", "DeleteSecret"}

SnapshotRequests == {"DescribeDBSnapshots", "WaitDBSnapshotAvailable", "DeleteDBSnapshot"}

\* every request of every operation names the secret <prefix>/<id> and the
\* snapshot <id>-cavalier of the one target identifier
SameNamesInAllOperations ==
    \A p \in Procs : \A k \in 1..Len(loc[p].calls) :
        LET c == loc[p].calls[k]
        IN  /\ c.call \in SecretRequests =>
                  c.id = masterUserPasswordSecretName(Prefix, Target)
            /\ c.call \in SnapshotRequests => c.id = dbSnapshotName(Target)
            /\ c.call = "CreateDBSnapshot" => c.arg = dbSnapshotName(Target)

\* Terminate has returned success in process p right after a successful Restore
\* that took its own snapshot
RoundTrip(p) ==
    /\ Done(p, "Terminate")
    /\ loc[p].result = Nil
    /\ After(p, "Restore")
    /\ loc[p].prev.takeSnapshot

(* C37: after a successful HandleRestore with cfg.takeSnapshot set followed *)
(* by a successful HandleTerminate for the same target identifier, nothing  *)
(* the Restore created remains: the target instance, the secret             *)
(* <prefix>/<instance-id> and the snapshot <instance-id>-cavalier are all   *)
(* absent; and Terminate names the secret and the snapshot as Restore,      *)
(* Modify and Snapshot do.                                                  *)
C37_RestoreThenTerminateLeavesNothing ==
    /\ SameNamesInAllOperations
    /\ \A p \in Procs :
          RoundTrip(p) =>
              /\ ~inst.exists
              /\ secret = NoSecret
              /\ SelectSnapshots(snaps, dbSnapshotName(Target), "") = <<>>
              /\ \E k \in Issued(p, "DeleteSecret") :
                    loc[p].calls[k].err = Nil /\ loc[p].calls[k].id = SecretName
              /\ \E k \in Issued(p, "DeleteDBSnapshot") :
                    loc[p].calls[k].err = Nil /\ loc[p].calls[k].id = SnapshotName

\* the round trip that found all three in place: the restored instance with
\* the password Modify gave it, the secret and the linked snapshot
C37_Witness ==
    \E p \in Procs :
        /\ RoundTrip(p)
        /\ loc[p].inst0.exists
        /\ loc[p].inst0.pw \in Passwords
        /\ HasTag(loc[p].inst0.TagList, "USE_SNAPSHOT_CREATED_BY_CAVALIER", "true")
        /\ LinkedSnapshots(loc[p].snaps0, Target) # {}
        /\ Issued(p, "DeleteDBInstance") # {}
        /\ Issued(p, "WaitDBInstanceDeleted") # {}

\* the CreateSecret requests of the two invocations that ended with err, as pairs
\* of process and position
Created(err) ==
    UNION {{<<p, k>> : k \in {j \in Issued(p, "CreateSecret") :
                                 IF err = Nil THEN loc[p].calls[j].err = Nil
                                 ELSE ErrorsAs(loc[p].calls[j].err, err[1])}} :
           p \in Racers}

\* the passwords carried by the ModifyDBInstance requests of the two invocations
RacePasswords ==
    UNION {{loc[p].calls[k].arg : k \in Issued(p, "ModifyDBInstance")} : p \in Racers}

\* each of the two invocations has issued its CreateSecret request
RaceBothCreated == \A p \in Racers : Issued(p, "CreateSecret") # {}

\* the secret store answered the CreateSecret request of each of the two
RaceBothAnswered ==
    \A p \in Racers : \E k \in Issued(p, "CreateSecret") :
        loc[p].calls[k].err = Nil \/ ErrorsAs(loc[p].calls[k].err, "ResourceExistsException")

\* one CreateSecret succeeded and the other invocation, told that the secret
\* exists, goes on with GetSecretValue
OneCreatesOtherGets ==
    /\ Cardinality(Created(Nil)) = 1
    /\ Cardinality(Created(ResourceExistsException)) = 1
    /\ \A c \in Created(ResourceExistsException) :
          LET p == c[1]
              k == c[2]
          IN  \/ k = Len(loc[p].calls) /\ loc[p].pc = "M_get"
              \/ k < Len(loc[p].calls) /\ loc[p].calls[k + 1].call = "GetSecretValue"

\* every ModifyDBInstance of either invocation carries the stored secret value,
\* and a password Modify applied to the instance is the stored secret value
RaceAgreesOnPassword ==
    /\ RacePasswords \subseteq {secret}
    /\ applied \subseteq {secret}
    /\ inst.exists /\ inst.pw \in {"pwInit", secret}
    /\ (\E p \in Racers : \E k \in Issued(p, "ModifyDBInstance") : loc[p].calls[k].err = Nil)
          => inst.pw = secret

(* C38 as claimed: under any interleaving of two concurrent HandleModify    *)
(* invocations on the same owned instance, exactly one CreateSecret         *)
(* succeeds and the other falls back to GetSecretValue, and every           *)
(* ModifyDBInstance of either carries the same password, the stored secret  *)
(* value.                                                                   *)
C38_ExactlyOneCreateSucceeds ==
    /\ RaceBothCreated => OneCreatesOtherGets
    /\ RaceAgreesOnPassword

(* C38 as amended: under any interleaving of two concurrent HandleModify    *)
(* invocations on the same owned instance, at most one CreateSecret         *)
(* succeeds; when no secret was stored before and the store answered both   *)
(* requests, exactly one succeeds and the other, told that the secret       *)
(* exists, falls back to GetSecretValue; when the secret was stored before, *)
(* none succeeds and both fall back; every ModifyDBInstance of either       *)
(* invocation carries the same password, the stored secret value, and the   *)
(* instance is never left with a password applied by Modify that differs    *)
(* from the stored secret.                                                  *)
C38_ConcurrentModifiesAgree ==
    /\ Cardinality(Created(Nil)) <= 1
    /\ (secret # "pwStored" /\ RaceBothAnswered) => OneCreatesOtherGets
    /\ (secret = "pwStored" /\ RaceBothAnswered) =>
          /\ Created(Nil) = {}
          /\ Cardinality(Created(ResourceExistsException)) = 2
          /\ \A p \in Racers :
                loc[p].pc = "M_get" \/ Issued(p, "GetSecretValue") # {}
    /\ RaceAgreesOnPassword

\* the race: both invocations generated a password, a different one each, the
\* second read the first's from the store, and both applied it
C38_Witness ==
    /\ loc["m1"].generated = "pwA"
    /\ loc["m2"].generated = "pwB"
    /\ Created(Nil) = {<<"m1", 3>>}
    /\ Created(ResourceExistsException) = {<<"m2", 3>>}
    /\ loc["m2"].pc = "done" /\ loc["m2"].result = Nil
    /\ loc["m1"].pc = "done" /\ loc["m1"].result = Nil
    /\ RacePasswords = {"pwA"}
    /\ \A p \in Racers : \E k \in Issued(p, "ModifyDBInstance") : loc[p].calls[k].err = Nil
    /\ inst.pw = "pwA"
    /\ secret = "pwA"

====
